---- MODULE Spec2Model ----
(***************************************************************************)
(* A model of the Rune interpreter pipeline driven by runCode:             *)
(*   tokenize (src/src/lexer/tokenizer.ts)                                 *)
(*   Parser.parseProgram (src/src/parser/parser.ts)                        *)
(*   Evaluator (src/unnamed/part_001, lines 267-724)                       *)
(*   runCode and formatValue of the IDE (src/unnamed/part_000, 225-327)    *)
(*   the REPL handlers of the IDE (src/unnamed/part_000, 329-369)          *)
(* Under Spec one run of runCode on one source string is one behaviour;    *)
(* under ReplSpec a behaviour is a session of Run clicks, REPL submissions *)
(* and key presses.  Strings are TLA+ strings, indexed from 0 as in the    *)
(* source through At.                                                      *)
(***************************************************************************)
EXTENDS Integers, Sequences, FiniteSets, TLC

VARIABLES
  source,           \* the argument of runCode
  pc,               \* position of runCode: lex, lexed, parse, parsed, eval, finish, done
  i,                \* tokenize: index into source
  line,             \* tokenize: current line
  column,           \* tokenize: current column
  tokens,           \* tokenize: tokens pushed so far
  spans,            \* history: [start, end) source range consumed for each token
  pos,              \* Parser.pos; under TokenizerSpec, Tokenizer.pos
  body,             \* parseProgram: body
  errors,           \* parseProgram: errors
  raised,           \* history: errors thrown inside parseProgram's try block
  parsed,           \* outcome of parseProgram: pending, returned, threw
  heap,             \* all Env objects created so far
  macros,           \* the macro table of the top-level Evaluator
  idx,              \* runCode: index of the next element of cst.body
  expressionCount,  \* runCode: expressionCount
  newOutput,        \* runCode: newOutput
  output,           \* React state set by setOutput
  stats,            \* React state set by setStats
  evalLog,          \* history: one record per call of evaluator.eval made by runCode
  replInput,        \* React state set by setReplInput
  replHistory,      \* React state set by setReplHistory
  replHistoryIndex, \* React state set by setReplHistoryIndex
  isRunning,        \* React state set by setIsRunning
  replOutput,       \* handleReplSubmit: newOutput, the output with the echo line
  caller,           \* the handler that awaits runCode: none, run, repl
  runs,             \* history: the sources runCode was called with
  lastEvent         \* history: the handler that ran last

vars == <<source, pc, i, line, column, tokens, spans, pos, body, errors, raised,
          parsed, heap, macros, idx, expressionCount, newOutput, output, stats,
          evalLog, replInput, replHistory, replHistoryIndex, isRunning,
          replOutput, caller, runs, lastEvent>>

replVars == <<replInput, replHistory, replHistoryIndex, isRunning, replOutput,
              caller, runs, lastEvent>>

lexVars == <<i, line, column, tokens, spans>>
parseVars == <<pos, body, errors, raised, parsed>>
evalVars == <<heap, macros, idx, expressionCount, evalLog>>
outVars == <<newOutput, output, stats>>

-----------------------------------------------------------------------------
(* Bounds of the model. *)

\* longest source drawn from the whole alphabet
MaxLen == 2
\* host call-stack depth available to Evaluator.eval before a RangeError
MaxDepth == 12
\* largest elapsed time, in ms, reported by performance.now()
MaxTimeMs == 1

-----------------------------------------------------------------------------
(* Characters. *)

Digits == {"0", "1", "2", "3", "4", "5", "6", "7", "8", "9"}

Letters ==
  {"a", "b", "c", "d", "e", "f", "g", "h", "i", "j", "k", "l", "m",
   "n", "o", "p", "q", "r", "s", "t", "u", "v", "w", "x", "y", "z",
   "A", "B", "C", "D", "E", "F", "G", "H", "I", "J", "K", "L", "M",
   "N", "O", "P", "Q", "R", "S", "T", "U", "V", "W", "X", "Y", "Z"}

\* /\s/ restricted to the characters a TLA+ string can hold
Whitespace == {" ", "\t", "\n", "\r", "\f"}

\* /[0-9.xXoOeE+-]/
NumberChars == Digits \cup {".", "x", "X", "o", "O", "e", "E", "+", "-"}

\* /[a-zA-Z_]/
IdentStart == Letters \cup {"_"}

\* /[a-zA-Z0-9_-]/
IdentChars == Letters \cup Digits \cup {"_", "-"}

\* source[k]; "" stands for undefined (k past the end)
At(s, k) == IF k >= 0 /\ k < Len(s) THEN SubSeq(s, k + 1, k + 1) ELSE ""

RECURSIVE ScanWhile(_, _, _)
\* while (i < source.length && re.test(source[i])) i++  -- the index reached
ScanWhile(s, k, chars) ==
  IF k < Len(s) /\ At(s, k) \in chars THEN ScanWhile(s, k + 1, chars) ELSE k

RECURSIVE ScanToNewline(_, _)
\* while (i < source.length && source[i] !== '\n') i++
ScanToNewline(s, k) ==
  IF k < Len(s) /\ At(s, k) # "\n" THEN ScanToNewline(s, k + 1) ELSE k

RECURSIVE ScanString(_, _, _)
\* the loop of the string branch: index reached and value accumulated
ScanString(s, k, value) ==
  IF k < Len(s) /\ At(s, k) # "\""
  THEN IF At(s, k) = "\\" /\ k + 1 < Len(s)
       THEN LET next == At(s, k + 1)
                add == CASE next = "n" -> "\n"
                         [] next = "t" -> "\t"
                         [] OTHER -> next
            IN ScanString(s, k + 2, value \o add)
       ELSE ScanString(s, k + 1, value \o At(s, k))
  ELSE [i |-> k, value |-> value]

\* The grave accent U+0060 (quasiquote) cannot be written in a TLA+ string: the
\* model writes it as "$".  "$" itself, which tokenize skips like any other
\* unrecognised character, is therefore not a character of the model.
BQ == "$"

singleCharTokens ==
  [c \in {"(", ")", "[", "]", "{", "}", "'", BQ, ",", "~", "^", "@", ".",
          "=", "+", "-", "*", "/", "<", ">", "%"} |->
     CASE c = "(" -> "LPAREN"
       [] c = ")" -> "RPAREN"
       [] c = "[" -> "LBRACKET"
       [] c = "]" -> "RBRACKET"
       [] c = "{" -> "LBRACE"
       [] c = "}" -> "RBRACE"
       [] c = "'" -> "QUOTE"
       [] c = BQ -> "QUASIQUOTE"
       [] c = "," -> "UNQUOTE"
       [] c = "~" -> "SPLICE"
       [] c = "^" -> "SPLICE"
       [] c = "@" -> "SPLICE"
       [] c = "." -> "DOT"
       [] c = "=" -> "EQUAL"
       [] c = "+" -> "PLUS"
       [] c = "-" -> "MINUS"
       [] c = "*" -> "STAR"
       [] c = "/" -> "SLASH"
       [] c = "<" -> "LT"
       [] c = ">" -> "GT"
       [] c = "%" -> "PERCENT"]

Token(type, value, l, c) == [type |-> type, value |-> value, line |-> l, column |-> c]

-----------------------------------------------------------------------------
(* tokenize: one action per branch of the body of its while loop. *)

char == At(source, i)

InLoop == pc = "lex" /\ i < Len(source)

Push(type, value, end) ==
  /\ tokens' = Append(tokens, Token(type, value, line, column))
  /\ spans' = Append(spans, [start |-> i, end |-> end])

LexRest == UNCHANGED <<source, replVars, pc, parseVars, evalVars, outVars>>

LexNewline ==
  /\ InLoop
  /\ char = "\n"
  /\ line' = line + 1
  /\ column' = 0
  /\ i' = i + 1
  /\ UNCHANGED <<tokens, spans>>
  /\ LexRest

IsComment == char = ";" /\ At(source, i + 1) = ";"

LexComment ==
  /\ InLoop
  /\ char # "\n"
  /\ IsComment
  /\ i' = ScanToNewline(source, i)
  /\ UNCHANGED <<line, column, tokens, spans>>
  /\ LexRest

LexWhitespace ==
  /\ InLoop
  /\ char # "\n"
  /\ ~IsComment
  /\ char \in Whitespace
  /\ i' = i + 1
  /\ column' = column + 1
  /\ UNCHANGED <<line, tokens, spans>>
  /\ LexRest

\* none of the three skipping branches applies: a token may start here
AtTokenStart == InLoop /\ char # "\n" /\ ~IsComment /\ char \notin Whitespace

LexString ==
  /\ AtTokenStart
  /\ char = "\""
  /\ LET r == ScanString(source, i + 1, "")
     IN /\ i' = r.i + 1
        /\ column' = column + (r.i + 1 - i)
        /\ Push("STRING", r.value, r.i + 1)
  /\ UNCHANGED line
  /\ LexRest

LexNumber ==
  /\ AtTokenStart
  /\ char \in Digits
  /\ LET e == ScanWhile(source, i, NumberChars)
     IN /\ i' = e
        /\ column' = column + (e - i)
        /\ Push("NUMBER", SubSeq(source, i + 1, e), e)
  /\ UNCHANGED line
  /\ LexRest

LexIdentifier ==
  /\ AtTokenStart
  /\ char \in IdentStart
  /\ LET e == ScanWhile(source, i, IdentChars)
         value == SubSeq(source, i + 1, e)
         type == CASE value = "true" -> "TRUE"
                   [] value = "false" -> "FALSE"
                   [] value = "nil" -> "NIL"
                   [] OTHER -> "SYMBOL"
     IN /\ i' = e
        /\ column' = column + (e - i)
        /\ Push(type, value, e)
  /\ UNCHANGED line
  /\ LexRest

LexKeyword ==
  /\ AtTokenStart
  /\ char = ":"
  /\ LET e == ScanWhile(source, i + 1, IdentChars)
     IN /\ i' = e
        /\ column' = column + (e - i)
        /\ Push("KEYWORD", SubSeq(source, i + 1, e), e)
  /\ UNCHANGED line
  /\ LexRest

IsArrow == char = "-" /\ At(source, i + 1) = ">"

LexArrow ==
  /\ AtTokenStart
  /\ IsArrow
  /\ i' = i + 2
  /\ column' = column + 2
  /\ Push("ARROW", "->", i + 2)
  /\ UNCHANGED line
  /\ LexRest

LexSingleChar ==
  /\ AtTokenStart
  /\ ~IsArrow
  /\ char \in DOMAIN singleCharTokens
  /\ i' = i + 1
  /\ column' = column + 1
  /\ Push(singleCharTokens[char], char, i + 1)
  /\ UNCHANGED line
  /\ LexRest

\* LexSkip without its i++: the column moves, the index does not
LexSkip_NoAdvance ==
  /\ AtTokenStart
  /\ char \notin {"\""} \cup Digits \cup IdentStart \cup {":"} \cup DOMAIN singleCharTokens
  /\ column' = column + 1
  /\ UNCHANGED <<i, line, tokens, spans>>
  /\ LexRest

LexSkip ==
  /\ AtTokenStart
  /\ char \notin {"\""} \cup Digits \cup IdentStart \cup {":"} \cup DOMAIN singleCharTokens
  /\ i' = i + 1
  /\ column' = column + 1
  /\ UNCHANGED <<line, tokens, spans>>
  /\ LexRest

LexEOF ==
  /\ pc = "lex"
  /\ i >= Len(source)
  /\ tokens' = Append(tokens, Token("EOF", "", line, column))
  /\ spans' = Append(spans, [start |-> i, end |-> i])
  /\ pc' = "lexed"
  /\ UNCHANGED <<source, replVars, i, line, column, parseVars, evalVars, outVars>>

-----------------------------------------------------------------------------
(* JavaScript values and the expression tree of parser.ts. *)

Num(n) == [k |-> "number", n |-> n]
Str(s) == [k |-> "string", s |-> s]
Bool(b) == [k |-> "boolean", b |-> b]
Nil == [k |-> "null"]
Undefined == [k |-> "undefined"]

Lit(v) == [type |-> "Literal", value |-> v]
\* the value of a Symbol is a JavaScript string
Sym(name) == [type |-> "Symbol", value |-> Str(name)]
ListE(es) == [type |-> "List", elements |-> es]
VectorE(es) == [type |-> "Vector", elements |-> es]
MapE(ps) == [type |-> "Map", pairs |-> ps]
QuoteE(e) == [type |-> "Quote", expr |-> e]
QuasiquoteE(e) == [type |-> "Quasiquote", expr |-> e]
UnquoteE(e) == [type |-> "Unquote", expr |-> e]
SpliceE(e) == [type |-> "Splice", expr |-> e]
\* the null that parseExpr returns, and the undefined of a missing array element
NullExpr == [type |-> "null"]
UndefExpr == [type |-> "undefined"]

DigitSeq == <<"0", "1", "2", "3", "4", "5", "6", "7", "8", "9">>

DigitVal(c) == (CHOOSE d \in 1..10 : DigitSeq[d] = c) - 1

RECURSIVE IntToStr(_)
\* String(n) for an integer n
IntToStr(n) ==
  IF n < 0 THEN "-" \o IntToStr(0 - n)
  ELSE IF n < 10 THEN DigitSeq[n + 1]
  ELSE IntToStr(n \div 10) \o DigitSeq[(n % 10) + 1]

RECURSIVE DigitsPrefix(_, _, _)
DigitsPrefix(s, k, acc) ==
  IF At(s, k) \in Digits THEN DigitsPrefix(s, k + 1, acc * 10 + DigitVal(At(s, k))) ELSE acc

\* parseFloat on a NUMBER lexeme (a digit, then characters of NumberChars): the
\* value of its leading decimal digits.  The sources of the model put no "."
\* and no exponent after those digits, where parseFloat would read on.
ParseFloat(s) == DigitsPrefix(s, 0, 0)

TypeErrorType == "Cannot read properties of undefined (reading 'type')"
TypeErrorLine == "Cannot read properties of undefined (reading 'line')"

-----------------------------------------------------------------------------
(* Parser: parseExpr and the methods it calls, as functions of the token   *)
(* list and of Parser.pos.  A result is the expression returned and the    *)
(* new pos, or the error thrown and the pos at the throw.                  *)

POk(e, p) == [thrown |-> FALSE, msg |-> "", expr |-> e, pos |-> p]
PThrow(m, p) == [thrown |-> TRUE, msg |-> m, expr |-> NullExpr, pos |-> p]

\* Parser.expect at pos p: the message it throws, "" when the type matches
expect(toks, p, type) ==
  LET token == toks[p + 1]
  IN IF token.type # type
     THEN "Expected " \o type \o " but got " \o token.type \o " at line " \o IntToStr(token.line)
     ELSE ""

RECURSIVE parseExpr(_, _)
RECURSIVE parseElements(_, _, _, _)
RECURSIVE parsePairs(_, _, _)

\* the while loop of parseList / parseVector and the expect that follows it
parseElements(toks, p, closer, elements) ==
  IF p >= Len(toks) THEN PThrow(TypeErrorType, p)
  ELSE IF toks[p + 1].type # closer /\ toks[p + 1].type # "EOF"
  THEN LET r == parseExpr(toks, p)
       IN IF r.thrown THEN r
          ELSE parseElements(toks, r.pos, closer,
                             IF r.expr.type # "null" THEN Append(elements, r.expr) ELSE elements)
  ELSE IF expect(toks, p, closer) # "" THEN PThrow(expect(toks, p, closer), p)
  ELSE [thrown |-> FALSE, msg |-> "", expr |-> ListE(elements), pos |-> p + 1]

\* the while loop of parseMap and the expect that follows it
parsePairs(toks, p, pairs) ==
  IF p >= Len(toks) THEN PThrow(TypeErrorType, p)
  ELSE IF toks[p + 1].type # "RBRACE" /\ toks[p + 1].type # "EOF"
  THEN LET key == parseExpr(toks, p)
       IN IF key.thrown THEN key
          ELSE IF key.expr.type = "null" THEN PThrow("Expected key in map", key.pos)
          ELSE LET value == parseExpr(toks, key.pos)
               IN IF value.thrown THEN value
                  ELSE IF value.expr.type = "null" THEN PThrow("Expected value in map", value.pos)
                  ELSE parsePairs(toks, value.pos,
                                  Append(pairs, [key |-> key.expr, value |-> value.expr]))
  ELSE IF expect(toks, p, "RBRACE") # "" THEN PThrow(expect(toks, p, "RBRACE"), p)
  ELSE POk(MapE(pairs), p + 1)

parseList(toks, p) == parseElements(toks, p + 1, "RPAREN", <<>>)

parseVector(toks, p) ==
  LET r == parseElements(toks, p + 1, "RBRACKET", <<>>)
  IN IF r.thrown THEN r ELSE POk(VectorE(r.expr.elements), r.pos)

parseMap(toks, p) == parsePairs(toks, p + 1, <<>>)

\* parseQuote, parseQuasiquote, parseUnquote: the node wraps whatever
\* parseExpr returns, null included
parseQuoted(toks, p, type) ==
  LET r == parseExpr(toks, p + 1)
  IN IF r.thrown THEN r ELSE POk([type |-> type, expr |-> r.expr], r.pos)

parseQuote(toks, p) == parseQuoted(toks, p, "Quote")
parseQuasiquote(toks, p) == parseQuoted(toks, p, "Quasiquote")
parseUnquote(toks, p) == parseQuoted(toks, p, "Unquote")

parseExpr(toks, p) ==
  IF p >= Len(toks) THEN PThrow(TypeErrorType, p)
  ELSE LET token == toks[p + 1]
       IN CASE token.type \in {"EOF", "COMMENT"} -> POk(NullExpr, p + 1)
            [] token.type \in {"RPAREN", "RBRACKET", "RBRACE"} ->
                 PThrow("Unexpected " \o token.type, p)
            [] token.type = "LPAREN" -> parseList(toks, p)
            [] token.type = "LBRACKET" -> parseVector(toks, p)
            [] token.type = "LBRACE" -> parseMap(toks, p)
            [] token.type = "QUOTE" -> parseQuote(toks, p)
            [] token.type = "QUASIQUOTE" -> parseQuasiquote(toks, p)
            [] token.type = "UNQUOTE" -> parseUnquote(toks, p)
            [] token.type = "NUMBER" -> POk(Lit(Num(ParseFloat(token.value))), p + 1)
            [] token.type = "STRING" -> POk(Lit(Str(token.value)), p + 1)
            [] token.type = "TRUE" -> POk(Lit(Bool(TRUE)), p + 1)
            [] token.type = "FALSE" -> POk(Lit(Bool(FALSE)), p + 1)
            [] token.type = "NIL" -> POk(Lit(Nil), p + 1)
            [] token.type = "KEYWORD" -> POk(Lit(Str(token.value)), p + 1)
            [] token.type = "SYMBOL" -> POk(Sym(token.value), p + 1)
            [] OTHER -> PThrow("Unexpected token: " \o token.type, p)

-----------------------------------------------------------------------------
(* Parser.parseProgram: one action per iteration of its while loop. *)

ParseRest == UNCHANGED <<source, replVars, lexVars, evalVars, stats, output>>

Line(type, text) == [type |-> type, text |-> text]

\* peek() is undefined: atEnd() throws
PastEnd == pos >= Len(tokens)

atEnd == tokens[pos + 1].type = "EOF"

\* try { expr = parseExpr(); if (expr) body.push(expr) }
ParseExprOk ==
  /\ pc = "parse"
  /\ ~PastEnd /\ ~atEnd
  /\ LET r == parseExpr(tokens, pos)
     IN /\ ~r.thrown
        /\ pos' = r.pos
        /\ body' = IF r.expr.type # "null" THEN Append(body, r.expr) ELSE body
  /\ UNCHANGED <<pc, errors, raised, parsed, newOutput>>
  /\ ParseRest

\* catch (e) { token = peek(); errors.push(...); advance() }
ParseCatch ==
  /\ pc = "parse"
  /\ ~PastEnd /\ ~atEnd
  /\ LET r == parseExpr(tokens, pos)
     IN /\ r.thrown
        /\ r.pos < Len(tokens)
        /\ LET token == tokens[r.pos + 1]
           IN errors' = Append(errors, [message |-> r.msg, line |-> token.line,
                                        column |-> token.column])
        /\ raised' = Append(raised, [message |-> r.msg, at |-> r.pos])
        /\ pos' = r.pos + 1
  /\ UNCHANGED <<pc, body, parsed, newOutput>>
  /\ ParseRest

\* A TypeError leaves parseProgram: atEnd() read past the token list, or the
\* catch block did.  runCode's outer catch (part_000:314) pushes the line.
ParseEscape ==
  /\ pc = "parse"
  /\ \/ /\ PastEnd
        /\ newOutput' = Append(newOutput, Line("error", TypeErrorType))
        /\ UNCHANGED <<pos, raised>>
     \/ /\ ~PastEnd /\ ~atEnd
        /\ LET r == parseExpr(tokens, pos)
           IN /\ r.thrown
              /\ r.pos >= Len(tokens)
              /\ pos' = r.pos
              /\ raised' = Append(raised, [message |-> r.msg, at |-> r.pos])
        /\ newOutput' = Append(newOutput, Line("error", TypeErrorLine))
  /\ parsed' = "threw"
  /\ pc' = "finish"
  /\ UNCHANGED <<body, errors>>
  /\ ParseRest

\* while (!this.atEnd()) ends: return { body, errors }
ParseReturn ==
  /\ pc = "parse"
  /\ ~PastEnd /\ atEnd
  /\ parsed' = "returned"
  /\ pc' = "parsed"
  /\ UNCHANGED <<pos, body, errors, raised, newOutput>>
  /\ ParseRest

-----------------------------------------------------------------------------
(* Evaluator: runtime values, environments and the heap of Env objects.    *)
(* An Env is referred to by its index in the heap; 0 is null / undefined.  *)

ListV(vs) == [k |-> "list", values |-> vs]
VectorV(vs) == [k |-> "vector", values |-> vs]
MapV(entries) == [k |-> "map", entries |-> entries]
FnV(params, fbody, env) == [k |-> "fn", params |-> params, body |-> fbody, env |-> env]
SpliceV(vs) == [k |-> "splice", values |-> vs]
\* a function inherited from Object.prototype
NativeV(name) == [k |-> "native", name |-> name]

isFnValue(v) == v.k = "fn"
isListValue(v) == v.k = "list"

\* {} as a JavaScript object: own properties are a function on strings
EmptyObj == [x \in {} |-> Nil]

Put(obj, key, v) == [x \in DOMAIN obj \cup {key} |-> IF x = key THEN v ELSE obj[x]]

\* Function-valued properties that every plain object inherits.  The accessor
\* __proto__ is not modelled: no source of the model uses that name.
ObjectProtoNames ==
  {"constructor", "hasOwnProperty", "isPrototypeOf", "propertyIsEnumerable",
   "toLocaleString", "toString", "valueOf"}

\* obj[key] on a plain object
GetProp(obj, key) ==
  IF key \in DOMAIN obj THEN obj[key]
  ELSE IF key \in ObjectProtoNames THEN NativeV(key)
  ELSE Undefined

\* String(v) of a native function
NativeText(name) ==
  "function " \o (IF name = "constructor" THEN "Object" ELSE name)
    \o "() { [native code] }"

PrimitiveNames ==
  {"+", "-", "*", "/", "=", "<", ">", "<=", ">=", "%", "cons", "car", "cdr",
   "list", "vec", "vec?", "list?", "map?", "fn?", "nil?", "true?", "false?",
   "print", "str", "type-of"}

\* primitiveFn ignores its argument; this.env is still undefined when the
\* constructor calls createGlobalEnv
primitiveFn == FnV(<<>>, <<>>, 0)

createGlobalEnv == [parent |-> 0, bindings |-> [n \in PrimitiveNames |-> primitiveFn]]

NewEnv(parent, bindings) == [parent |-> parent, bindings |-> bindings]

RECURSIVE lookupInParent(_, _, _)
\* the Symbol case of eval and lookupInParent: the value, or Undefined when
\* no Env of the chain has a value for the name
lookupInParent(h, env, name) ==
  LET value == GetProp(h[env].bindings, name)
  IN IF value # Undefined THEN value
     ELSE IF h[env].parent # 0 THEN lookupInParent(h, h[env].parent, name)
     ELSE Undefined

RECURSIVE SplitSpace(_, _, _, _)
\* s.split(' ').filter(Boolean)
SplitSpace(s, k, cur, acc) ==
  IF k >= Len(s) THEN (IF cur # "" THEN Append(acc, cur) ELSE acc)
  ELSE IF At(s, k) = " "
  THEN SplitSpace(s, k + 1, "", IF cur # "" THEN Append(acc, cur) ELSE acc)
  ELSE SplitSpace(s, k + 1, cur \o At(s, k), acc)

\* element k (from 0) of a JavaScript array of expressions
Elem(es, k) == IF k < Len(es) THEN es[k + 1] ELSE UndefExpr

\* args.slice(k)
Slice(es, k) == IF k >= Len(es) THEN <<>> ELSE SubSeq(es, k + 1, Len(es))

\* the value read by (e as any)?.value || '' : a string, or a value that has
\* no split method
ParamsSource(e) ==
  IF e.type \in {"Symbol", "Literal"}
       THEN CASE e.value.k = "string" -> e.value
              [] e.value.k = "number" -> IF e.value.n = 0 THEN Str("") ELSE e.value
              [] e.value.k = "boolean" -> IF e.value.b THEN e.value ELSE Str("")
              [] e.value.k = "native" -> e.value
              [] OTHER -> Str("")
  ELSE Str("")

\* ((e as any)?.value || '').split(' ').filter(Boolean)
ParamsOf(e) ==
  LET v == ParamsSource(e)
  IN IF v.k = "string"
     THEN [thrown |-> FALSE, params |-> SplitSpace(v.s, 0, "", <<>>)]
     ELSE [thrown |-> TRUE, params |-> <<>>]

SplitError == "((intermediate value)?.value || \"\").split is not a function"

\* String(v) of the value of a Symbol or Literal, used as a property key
ScalarText(v) ==
  CASE v.k = "string" -> v.s
    [] v.k = "number" -> IntToStr(v.n)
    [] v.k = "boolean" -> IF v.b THEN "true" ELSE "false"
    [] v.k = "null" -> "null"
    [] v.k = "native" -> NativeText(v.name)
    [] OTHER -> "undefined"

\* the property key that (e as any).value becomes
PropKey(e) ==
  IF e.type \in {"Symbol", "Literal"} THEN ScalarText(e.value) ELSE "undefined"

EOk(v, h, m) == [thrown |-> FALSE, msg |-> "", v |-> v, heap |-> h, macros |-> m]
EThrow(msg, h, m) == [thrown |-> TRUE, msg |-> msg, v |-> Undefined, heap |-> h, macros |-> m]

\* Truthy with the truthiness of the host language: 0 and "" are false too
Truthy_Host(v) == v # Bool(FALSE) /\ v # Nil /\ v # Num(0) /\ v # Str("")

\* the test of the if form: condition !== false && condition !== null
Truthy(v) == v # Bool(FALSE) /\ v # Nil

StackOverflow == "Maximum call stack size exceeded"

\* bindings of the Env that apply creates: params[i] -> evaluatedArgs[i]
BindParams(params, evaluatedArgs) ==
  [n \in {params[j] : j \in 1..Len(params)} |->
     LET j == CHOOSE j \in 1..Len(params) :
                /\ params[j] = n
                /\ \A j2 \in 1..Len(params) : params[j2] = n => j2 <= j
     IN IF j <= Len(evaluatedArgs) THEN evaluatedArgs[j] ELSE Undefined]

\* hygienicEnv of expandMacro: param -> param__gen<counter>
HygienicEnv(params) ==
  [n \in {params[j] : j \in 1..Len(params)} |->
     LET j == CHOOSE j \in 1..Len(params) :
                /\ params[j] = n
                /\ \A j2 \in 1..Len(params) : params[j2] = n => j2 <= j
     IN Str(n \o "__gen" \o IntToStr(j))]

RECURSIVE substitute(_, _)

\* A result is [thrown, expr].  env[name] is truthy for a generated name and
\* for an inherited function, which then becomes the value of the symbol.
substitute(expr, env) ==
  LET hit(key) == GetProp(env, key)
      SymOf(v) == [type |-> "Symbol", value |-> v]
      mapped == [j \in 1..Len(expr.elements) |-> substitute(expr.elements[j], env)]
      all == IF \E j \in 1..Len(expr.elements) : mapped[j].thrown
             THEN [thrown |-> TRUE, expr |-> expr]
             ELSE [thrown |-> FALSE,
                   expr |-> ListE([j \in 1..Len(expr.elements) |-> mapped[j].expr])]
  IN CASE expr.type = "undefined" -> [thrown |-> TRUE, expr |-> expr]
       [] expr.type = "Symbol" ->
            IF hit(PropKey(expr)) # Undefined
            THEN [thrown |-> FALSE, expr |-> SymOf(hit(PropKey(expr)))]
            ELSE [thrown |-> FALSE, expr |-> expr]
       [] expr.type = "List" ->
            IF /\ Len(expr.elements) > 0
               /\ expr.elements[1].type = "Symbol"
               /\ expr.elements[1].value = Str("unquote")
            THEN IF Len(expr.elements) < 2 THEN [thrown |-> TRUE, expr |-> expr]
                 ELSE IF hit(PropKey(expr.elements[2])) # Undefined
                 THEN [thrown |-> FALSE,
                       expr |-> SymOf(hit(PropKey(expr.elements[2])))]
                 ELSE all
            ELSE all
       [] OTHER -> [thrown |-> FALSE, expr |-> expr]

\* expandMacro: macro.body[0] with the parameters renamed
expandMacro(macro, args) == substitute(Elem(macro.body, 0), HygienicEnv(macro.params))

-----------------------------------------------------------------------------
(* Evaluator.eval and the methods it calls.  env is the Env of the         *)
(* Evaluator instance that runs (this.env), m its macro table, h the heap, *)
(* d the call-stack depth left.  A result carries the heap and the macro   *)
(* table as the call leaves them, also when it throws.                     *)

RECURSIVE eval(_, _, _, _, _)
RECURSIVE evalAll(_, _, _, _, _, _, _)
RECURSIVE evalBody(_, _, _, _, _, _, _)
RECURSIVE evalPairs(_, _, _, _, _, _, _)
RECURSIVE apply(_, _, _, _, _, _)
RECURSIVE letBindings(_, _, _, _, _, _, _)
RECURSIVE specialForm(_, _, _, _, _, _)
RECURSIVE evalQuote(_, _, _, _, _)
RECURSIVE evalQuoteAll(_, _, _, _, _, _, _)
RECURSIVE evalQuasiquote(_, _, _, _, _)
RECURSIVE evalQuasiquoteAll(_, _, _, _, _, _, _)

\* exprs.map(e => this.eval(e)) from element k on; v is the array of values
evalAll(exprs, k, env, m, h, d, acc) ==
  IF k > Len(exprs) THEN EOk(acc, h, m)
  ELSE LET r == eval(exprs[k], env, m, h, d)
       IN IF r.thrown THEN r
          ELSE evalAll(exprs, k + 1, env, r.macros, r.heap, d, Append(acc, r.v))

\* for (const expr of exprs) result = this.eval(expr)
evalBody(exprs, k, env, m, h, d, result) ==
  IF k > Len(exprs) THEN EOk(result, h, m)
  ELSE LET r == eval(exprs[k], env, m, h, d)
       IN IF r.thrown THEN r
          ELSE evalBody(exprs, k + 1, env, r.macros, r.heap, d, r.v)

\* the loop of the Map case of eval
evalPairs(pairs, k, env, m, h, d, entries) ==
  IF k > Len(pairs) THEN EOk(MapV(entries), h, m)
  ELSE LET key == eval(pairs[k].key, env, m, h, d)
       IN IF key.thrown THEN key
          ELSE IF key.v.k # "string"
          THEN EThrow("Map keys must be strings", key.heap, key.macros)
          ELSE LET value == eval(pairs[k].value, env, key.macros, key.heap, d)
               IN IF value.thrown THEN value
                  ELSE evalPairs(pairs, k + 1, env, value.macros, value.heap, d,
                                 Put(entries, key.v.s, value.v))

apply(fn, args, env, m, h, d) ==
  LET evaluatedArgs == evalAll(args, 1, env, m, h, d, <<>>)
  IN IF evaluatedArgs.thrown THEN evaluatedArgs
     ELSE IF Len(fn.body) = 0
     THEN EOk(FnV(fn.params, <<>>, fn.env), evaluatedArgs.heap, evaluatedArgs.macros)
     ELSE LET h2 == Append(evaluatedArgs.heap,
                           NewEnv(fn.env, BindParams(fn.params, evaluatedArgs.v)))
              \* nestedEval = new Evaluator(newEnv): a macro table of its own
              r == evalBody(fn.body, 1, Len(h2), EmptyObj, h2, d, Nil)
          IN [r EXCEPT !.macros = evaluatedArgs.macros]

\* the binding loop of let: values are evaluated by this evaluator (env),
\* and stored in newEnv
letBindings(bindings, k, env, newEnv, m, h, d) ==
  IF k >= Len(bindings) THEN EOk(Nil, h, m)
  ELSE LET value == eval(Elem(bindings, k + 1), env, m, h, d)
       IN IF value.thrown THEN value
          ELSE letBindings(bindings, k + 2, env, newEnv, value.macros,
                           [value.heap EXCEPT ![newEnv].bindings =
                              Put(@, PropKey(bindings[k + 1]), value.v)],
                           d)

specialForm(name, args, env, m, h, d) ==
  CASE name = "fn" ->
         LET p == ParamsOf(Elem(args, 0))
         IN IF p.thrown THEN EThrow(SplitError, h, m)
            ELSE EOk(FnV(p.params, Slice(args, 1), env), h, m)
    [] name = "def" ->
         LET value == eval(Elem(args, 1), env, m, h, d)
         IN IF value.thrown THEN value
            ELSE EOk(Nil,
                     [value.heap EXCEPT ![env].bindings =
                        Put(@, PropKey(Elem(args, 0)), value.v)],
                     value.macros)
    [] name = "defn" ->
         IF Len(args) = 0
         THEN EThrow("Cannot read properties of undefined (reading 'value')", h, m)
         ELSE LET p == ParamsOf(Elem(args, 1))
              IN IF p.thrown THEN EThrow(SplitError, h, m)
                 ELSE EOk(Nil,
                          [h EXCEPT ![env].bindings =
                             Put(@, PropKey(args[1]), FnV(p.params, Slice(args, 2), env))],
                          m)
    [] name = "defmacro" ->
         IF Len(args) = 0
         THEN EThrow("Cannot read properties of undefined (reading 'value')", h, m)
         ELSE LET p == ParamsOf(Elem(args, 1))
                  \* a key that is not a string is never found by macros.get(name)
                  isString == \/ args[1].type = "Symbol"
                              \/ args[1].type = "Literal" /\ args[1].value.k = "string"
              IN IF p.thrown THEN EThrow(SplitError, h, m)
                 ELSE EOk(Nil, h,
                          IF isString
                          THEN Put(m, PropKey(args[1]),
                                   [params |-> p.params, body |-> Slice(args, 2)])
                          ELSE m)
    [] name = "let" ->
         IF Len(args) = 0
         THEN EThrow("Cannot read properties of undefined (reading 'elements')", h, m)
         ELSE LET h2 == Append(h, NewEnv(env, EmptyObj))
                  newEnv == Len(h2)
                  b == letBindings(args[1].elements, 0, env, newEnv, m, h2, d)
              IN IF args[1].type \notin {"List", "Vector"}
                 THEN EThrow("Cannot read properties of undefined (reading 'length')", h2, m)
                 ELSE IF b.thrown THEN b
                 ELSE LET r == evalBody(Slice(args, 1), 1, newEnv, EmptyObj, b.heap, d, Nil)
                      IN [r EXCEPT !.macros = b.macros]
    [] name = "if" ->
         LET condition == eval(Elem(args, 0), env, m, h, d)
         IN IF condition.thrown THEN condition
            ELSE IF Truthy(condition.v)
            THEN eval(Elem(args, 1), env, condition.macros, condition.heap, d)
            ELSE IF Len(args) >= 3
            THEN eval(args[3], env, condition.macros, condition.heap, d)
            ELSE EOk(Nil, condition.heap, condition.macros)
    [] name = "do" -> evalBody(args, 1, env, m, h, d, Nil)
    [] OTHER ->
         IF name \in DOMAIN m
         THEN LET expanded == expandMacro(m[name], args)
              IN IF expanded.thrown THEN EThrow(TypeErrorType, h, m)
                 ELSE eval(expanded.expr, env, m, h, d)
         ELSE EThrow("Unknown special form: " \o name, h, m)

evalQuoteAll(exprs, k, env, m, h, d, acc) ==
  IF k > Len(exprs) THEN EOk(acc, h, m)
  ELSE LET r == evalQuote(exprs[k], env, m, h, d)
       IN IF r.thrown THEN r
          ELSE evalQuoteAll(exprs, k + 1, env, r.macros, r.heap, d, Append(acc, r.v))

evalQuote(expr, env, m, h, d) ==
  CASE expr.type = "null" ->
         EThrow("Cannot read properties of null (reading 'type')", h, m)
    [] expr.type = "Symbol" -> EOk(expr.value, h, m)
    [] expr.type = "List" ->
         LET r == evalQuoteAll(expr.elements, 1, env, m, h, d, <<>>)
         IN IF r.thrown THEN r ELSE EOk(ListV(r.v), r.heap, r.macros)
    [] expr.type = "Vector" ->
         LET r == evalQuoteAll(expr.elements, 1, env, m, h, d, <<>>)
         IN IF r.thrown THEN r ELSE EOk(VectorV(r.v), r.heap, r.macros)
    [] expr.type = "Map" -> EOk(MapV(EmptyObj), h, m)
    [] OTHER -> eval(expr, env, m, h, d)

\* the loop of the List case of evalQuasiquote
evalQuasiquoteAll(exprs, k, env, m, h, d, values) ==
  IF k > Len(exprs) THEN EOk(values, h, m)
  ELSE LET r == evalQuasiquote(exprs[k], env, m, h, d)
       IN IF r.thrown THEN r
          ELSE evalQuasiquoteAll(exprs, k + 1, env, r.macros, r.heap, d,
                                 IF r.v.k = "splice" THEN values \o r.v.values
                                 ELSE Append(values, r.v))

evalQuasiquote(expr, env, m, h, d) ==
  CASE expr.type = "null" ->
         EThrow("Cannot read properties of null (reading 'type')", h, m)
    [] expr.type = "Unquote" -> eval(expr.expr, env, m, h, d)
    [] expr.type = "Splice" ->
         LET value == eval(expr.expr, env, m, h, d)
         IN IF value.thrown THEN value
            ELSE IF isListValue(value.v)
            THEN EOk(SpliceV(value.v.values), value.heap, value.macros)
            ELSE EOk(SpliceV(<<value.v>>), value.heap, value.macros)
    [] expr.type = "List" ->
         LET r == evalQuasiquoteAll(expr.elements, 1, env, m, h, d, <<>>)
         IN IF r.thrown THEN r ELSE EOk(ListV(r.v), r.heap, r.macros)
    [] OTHER -> evalQuote(expr, env, m, h, d)

eval(expr, env, m, h, d) ==
  IF d = 0 THEN EThrow(StackOverflow, h, m)
  ELSE
  CASE expr.type = "undefined" -> EThrow(TypeErrorType, h, m)
    [] expr.type = "null" ->
         EThrow("Cannot read properties of null (reading 'type')", h, m)
    [] expr.type = "Literal" -> EOk(expr.value, h, m)
    [] expr.type = "Symbol" ->
         LET value == lookupInParent(h, env, PropKey(expr))
         IN IF value # Undefined THEN EOk(value, h, m)
            ELSE EThrow("Undefined symbol: " \o PropKey(expr), h, m)
    [] expr.type = "List" ->
         IF Len(expr.elements) = 0 THEN EOk(ListV(<<>>), h, m)
         ELSE LET first == eval(expr.elements[1], env, m, h, d - 1)
              IN IF first.thrown THEN first
                 ELSE IF isFnValue(first.v)
                 THEN apply(first.v, Slice(expr.elements, 1), env,
                            first.macros, first.heap, d - 1)
                 ELSE IF first.v.k = "string"
                 THEN specialForm(first.v.s, Slice(expr.elements, 1), env,
                                  first.macros, first.heap, d - 1)
                 ELSE EThrow("Cannot call non-function", first.heap, first.macros)
    [] expr.type = "Vector" ->
         LET r == evalAll(expr.elements, 1, env, m, h, d - 1, <<>>)
         IN IF r.thrown THEN r ELSE EOk(VectorV(r.v), r.heap, r.macros)
    [] expr.type = "Map" -> evalPairs(expr.pairs, 1, env, m, h, d - 1, EmptyObj)
    [] expr.type = "Quote" -> evalQuote(expr.expr, env, m, h, d - 1)
    [] expr.type = "Quasiquote" -> evalQuasiquote(expr.expr, env, m, h, d - 1)
    [] expr.type = "Unquote" -> EThrow("Unquote outside quasiquote", h, m)
    [] expr.type = "Splice" -> EThrow("Splice outside quasiquote", h, m)
    [] OTHER -> EThrow("Unknown expression type: " \o expr.type, h, m)

-----------------------------------------------------------------------------
(* formatValue of the IDE (part_000:225).  A result is [thrown, text].     *)

RECURSIVE formatValue(_)
RECURSIVE joinFormatted(_, _, _)

ForEachError == "v.entries?.forEach is not a function"

\* values.map(formatValue).join(' ')
joinFormatted(vs, k, acc) ==
  IF k > Len(vs) THEN [thrown |-> FALSE, text |-> acc]
  ELSE LET f == formatValue(vs[k])
       IN IF f.thrown THEN f
          ELSE joinFormatted(vs, k + 1, IF k = 1 THEN f.text ELSE acc \o " " \o f.text)

formatValue(v) ==
  LET text(t) == [thrown |-> FALSE, text |-> t]
  IN CASE v.k = "null" -> text("nil")
       [] v.k = "number" -> text(IntToStr(v.n))
       [] v.k = "string" -> text(v.s)
       [] v.k = "boolean" -> text(IF v.b THEN "true" ELSE "false")
       [] v.k = "list" ->
            LET j == joinFormatted(v.values, 1, "")
            IN IF j.thrown THEN j ELSE text("(" \o j.text \o ")")
       [] v.k = "vector" ->
            LET j == joinFormatted(v.values, 1, "")
            IN IF j.thrown THEN j ELSE text("[" \o j.text \o "]")
       \* entries is a plain object, which has no forEach
       [] v.k = "map" -> [thrown |-> TRUE, text |-> ForEachError]
       [] v.k = "fn" -> text("#<fn>")
       [] v.k = "native" -> text(NativeText(v.name))
       [] v.k = "undefined" -> text("undefined")
       [] OTHER -> text("[object Object]")

-----------------------------------------------------------------------------
(* runCode (part_000:274-327). *)

NoStats == [set |-> FALSE, expressions |-> 0, timeMs |-> 0]

\* `Executed ${n} expression${n !== 1 ? 's' : ''} in ${timeMs.toFixed(2)}ms`
\* for an elapsed time of t whole milliseconds
TimeText(n, t) ==
  "Executed " \o IntToStr(n) \o " expression" \o (IF n # 1 THEN "s" ELSE "")
    \o " in " \o IntToStr(t) \o ".00ms"

\* lines 284-293: the ERROR test on the tokens, then parseProgram(source),
\* which runs tokenize on the same source again and builds the Parser
RunAfterLex ==
  /\ pc = "lexed"
  /\ IF \E k \in 1..Len(tokens) : tokens[k].type = "ERROR"
     THEN LET errorToken == tokens[CHOOSE k \in 1..Len(tokens) :
                                     /\ tokens[k].type = "ERROR"
                                     /\ \A j \in 1..(k - 1) : tokens[j].type # "ERROR"]
          IN /\ newOutput' = Append(newOutput,
                                    Line("error", "Lexing error at line "
                                                    \o IntToStr(errorToken.line) \o ": "
                                                    \o errorToken.value))
             /\ output' = newOutput'
             /\ pc' = "done"
             /\ UNCHANGED pos
     ELSE /\ pos' = 0
          /\ pc' = "parse"
          /\ UNCHANGED <<newOutput, output>>
  /\ UNCHANGED <<source, replVars, lexVars, body, errors, raised, parsed, evalVars, stats>>

\* RunParseFailed without its return: the error line is pushed and runCode
\* goes on to build the Evaluator
RunParseFailed_NoReturn ==
  /\ pc = "parsed"
  /\ Len(errors) > 0
  /\ newOutput' = Append(newOutput, Line("error", errors[1].message))
  /\ output' = newOutput'
  /\ heap' = <<createGlobalEnv>>
  /\ macros' = EmptyObj
  /\ idx' = 1
  /\ pc' = "eval"
  /\ UNCHANGED <<source, replVars, lexVars, parseVars, expressionCount, evalLog, stats>>

\* lines 295-299
RunParseFailed ==
  /\ pc = "parsed"
  /\ Len(errors) > 0
  /\ newOutput' = Append(newOutput, Line("error", errors[1].message))
  /\ output' = newOutput'
  /\ pc' = "done"
  /\ UNCHANGED <<source, replVars, lexVars, parseVars, evalVars, stats>>

\* line 301: const evaluator = new Evaluator()
RunNewEvaluator ==
  /\ pc = "parsed"
  /\ Len(errors) = 0
  /\ heap' = <<createGlobalEnv>>
  /\ macros' = EmptyObj
  /\ idx' = 1
  /\ pc' = "eval"
  /\ UNCHANGED <<source, replVars, lexVars, parseVars, expressionCount, evalLog, outVars>>

\* lines 306-312: the lines that one iteration pushes for the result r of
\* evaluator.eval(expr)
LinesFor(r) ==
  IF r.thrown THEN <<Line("error", r.msg)>>
  ELSE IF r.v # Nil /\ r.v # Undefined
  THEN LET f == formatValue(r.v)
       IN IF f.thrown THEN <<Line("error", f.text)>> ELSE <<Line("value", f.text)>>
  ELSE <<>>

\* RunEvalExpr with the try/catch around the loop instead of inside it: the
\* first error ends the loop
RunEvalExpr_StopAtError ==
  /\ pc = "eval"
  /\ idx <= Len(body)
  /\ expressionCount' = expressionCount + 1
  /\ LET r == eval(body[idx], 1, macros, heap, MaxDepth)
     IN /\ heap' = r.heap
        /\ macros' = r.macros
        /\ newOutput' = newOutput \o LinesFor(r)
        /\ evalLog' = Append(evalLog, [index |-> idx, expr |-> body[idx],
                                       raised |-> r.thrown, msg |-> r.msg,
                                       v |-> r.v, lines |-> LinesFor(r)])
        /\ idx' = IF r.thrown THEN Len(body) + 1 ELSE idx + 1
  /\ UNCHANGED <<source, replVars, pc, lexVars, parseVars, output, stats>>

\* RunEvalExpr with expressionCount++ after the call of eval: an expression
\* that throws is not counted
RunEvalExpr_CountAfterEval ==
  /\ pc = "eval"
  /\ idx <= Len(body)
  /\ LET r == eval(body[idx], 1, macros, heap, MaxDepth)
     IN /\ heap' = r.heap
        /\ macros' = r.macros
        /\ expressionCount' = IF r.thrown THEN expressionCount ELSE expressionCount + 1
        /\ newOutput' = newOutput \o LinesFor(r)
        /\ evalLog' = Append(evalLog, [index |-> idx, expr |-> body[idx],
                                       raised |-> r.thrown, msg |-> r.msg,
                                       v |-> r.v, lines |-> LinesFor(r)])
  /\ idx' = idx + 1
  /\ UNCHANGED <<source, replVars, pc, lexVars, parseVars, output, stats>>

\* lines 303-313: one iteration of for (const expr of cst.body)
RunEvalExpr ==
  /\ pc = "eval"
  /\ idx <= Len(body)
  /\ expressionCount' = expressionCount + 1
  /\ LET r == eval(body[idx], 1, macros, heap, MaxDepth)
     IN /\ heap' = r.heap
        /\ macros' = r.macros
        /\ newOutput' = newOutput \o LinesFor(r)
        /\ evalLog' = Append(evalLog, [index |-> idx, expr |-> body[idx],
                                       raised |-> r.thrown, msg |-> r.msg,
                                       v |-> r.v, lines |-> LinesFor(r)])
  /\ idx' = idx + 1
  /\ UNCHANGED <<source, replVars, pc, lexVars, parseVars, output, stats>>

RunLoopEnd ==
  /\ pc = "eval"
  /\ idx > Len(body)
  /\ pc' = "finish"
  /\ UNCHANGED <<source, replVars, lexVars, parseVars, evalVars, outVars>>

\* lines 318-326
RunFinish ==
  /\ pc = "finish"
  /\ \E timeMs \in 0..MaxTimeMs :
       /\ stats' = [set |-> TRUE, expressions |-> expressionCount, timeMs |-> timeMs]
       /\ newOutput' = IF expressionCount > 0
                       THEN Append(newOutput,
                                   Line("time", TimeText(expressionCount, timeMs)))
                       ELSE newOutput
  /\ output' = newOutput'
  /\ pc' = "done"
  /\ UNCHANGED <<source, replVars, lexVars, parseVars, evalVars>>

-----------------------------------------------------------------------------
(* The handlers of the IDE that call runCode (part_000:329-369).  The Run  *)
(* button and the REPL input are disabled while isRunning, so one runCode  *)
(* is in flight at a time.                                                 *)

\* most calls of runCode in one session
MaxRuns == 2

\* values typed into the REPL input
ReplInputs == {"", " ", "('def x 1)", "x"}

\* a text with a comment, a newline, a string, a keyword, an arrow, a number,
\* a skipped character and a token that parseExpr rejects
CoverageCode == ";;c\n\"s\" :k -> 1 # )"

\* contents of the editor
Codes == {"('def x 1)", CoverageCode, "("}

\* !s.trim()
IsBlank(s) == \A k \in 0..(Len(s) - 1) : At(s, k) \in Whitespace

Idle == pc = "idle" /\ ~isRunning

\* the call runCode(src) up to its first await: fresh locals
StartRunCode(src) ==
  /\ source' = src
  /\ runs' = Append(runs, src)
  /\ pc' = "lex"
  /\ i' = 0
  /\ line' = 1
  /\ column' = 0
  /\ tokens' = <<>>
  /\ spans' = <<>>
  /\ pos' = 0
  /\ body' = <<>>
  /\ errors' = <<>>
  /\ raised' = <<>>
  /\ parsed' = "pending"
  /\ heap' = <<>>
  /\ macros' = EmptyObj
  /\ idx' = 0
  /\ expressionCount' = 0
  /\ newOutput' = <<>>
  /\ evalLog' = <<>>

\* onChange of the REPL input
SetReplInput ==
  /\ Idle
  /\ \E v \in ReplInputs : replInput' = v
  /\ lastEvent' = "change"
  /\ UNCHANGED <<source, pc, lexVars, parseVars, evalVars, outVars, replHistory,
                 replHistoryIndex, isRunning, replOutput, caller, runs>>

\* lines 329-332, with the editor holding any of Codes
handleRun ==
  /\ Idle
  /\ Len(runs) < MaxRuns
  /\ isRunning' = TRUE
  /\ caller' = "run"
  /\ lastEvent' = "run"
  /\ \E code \in Codes : StartRunCode(code)
  /\ UNCHANGED <<output, stats, replInput, replHistory, replHistoryIndex, replOutput>>

\* .finally(() => setIsRunning(false))
RunFinally ==
  /\ pc = "done"
  /\ caller = "run"
  /\ isRunning' = FALSE
  /\ caller' = "none"
  /\ pc' = "idle"
  /\ UNCHANGED <<source, lexVars, parseVars, evalVars, outVars, replInput, replHistory,
                 replHistoryIndex, replOutput, runs, lastEvent>>

\* handleReplSubmit without setReplHistoryIndex(-1)
handleReplSubmit_KeepIndex ==
  /\ Idle
  /\ lastEvent' = "submit"
  /\ IF IsBlank(replInput)
     THEN UNCHANGED <<source, pc, lexVars, parseVars, evalVars, outVars, replInput,
                      replHistory, replHistoryIndex, isRunning, replOutput, caller, runs>>
     ELSE /\ Len(runs) < MaxRuns
          /\ replOutput' = Append(output, Line("info", "> " \o replInput))
          /\ output' = replOutput'
          /\ replHistory' = Append(replHistory, replInput)
          /\ isRunning' = TRUE
          /\ caller' = "repl"
          /\ StartRunCode(replInput)
          /\ UNCHANGED <<stats, replInput, replHistoryIndex>>

\* lines 334-343: a blank input returns at once
handleReplSubmit ==
  /\ Idle
  /\ lastEvent' = "submit"
  /\ IF IsBlank(replInput)
     THEN UNCHANGED <<source, pc, lexVars, parseVars, evalVars, outVars, replInput,
                      replHistory, replHistoryIndex, isRunning, replOutput, caller, runs>>
     ELSE /\ Len(runs) < MaxRuns
          /\ replOutput' = Append(output, Line("info", "> " \o replInput))
          /\ output' = replOutput'
          /\ replHistory' = Append(replHistory, replInput)
          /\ replHistoryIndex' = -1
          /\ isRunning' = TRUE
          /\ caller' = "repl"
          /\ StartRunCode(replInput)
          /\ UNCHANGED <<stats, replInput>>

\* lines 344-347: .then(() => { setReplInput(''); setIsRunning(false) })
ReplThen ==
  /\ pc = "done"
  /\ caller = "repl"
  /\ replInput' = ""
  /\ isRunning' = FALSE
  /\ caller' = "none"
  /\ pc' = "idle"
  /\ UNCHANGED <<source, lexVars, parseVars, evalVars, outVars, replHistory,
                 replHistoryIndex, replOutput, runs, lastEvent>>

\* the frame of a key press
KeyRest ==
  UNCHANGED <<source, pc, lexVars, parseVars, evalVars, outVars, replHistory,
              isRunning, replOutput, caller, runs>>

\* lines 351-357
ArrowUp ==
  /\ Idle
  /\ lastEvent' = "up"
  /\ IF replHistoryIndex < Len(replHistory) - 1
     THEN LET newIndex == replHistoryIndex + 1
          IN /\ replHistoryIndex' = newIndex
             /\ replInput' = replHistory[Len(replHistory) - newIndex]
     ELSE UNCHANGED <<replHistoryIndex, replInput>>
  /\ KeyRest

\* lines 358-367
ArrowDown ==
  /\ Idle
  /\ lastEvent' = "down"
  /\ IF replHistoryIndex > 0
     THEN LET newIndex == replHistoryIndex - 1
          IN /\ replHistoryIndex' = newIndex
             /\ replInput' = replHistory[Len(replHistory) - newIndex]
     ELSE /\ replHistoryIndex' = -1
          /\ replInput' = ""
  /\ KeyRest

-----------------------------------------------------------------------------
(* Sources. *)

\* one character or more for every branch of tokenize and every token type
\* that parseExpr tells apart
Alphabet ==
  {"\n", ";", " ", "\"", "\\", "1", "a", ":", "-", ">", "(", ")", "[", "]",
   "{", "}", "'", BQ, ",", "~", "@", "+", "#"}

RECURSIVE Strings(_)
\* all strings over Alphabet of length n or less
Strings(n) ==
  IF n = 0 THEN {""}
  ELSE Strings(n - 1) \cup {s \o c : s \in Strings(n - 1), c \in Alphabet}

\* the arithmetic and comparison primitives of createGlobalEnv
ArithmeticNames == {"+", "-", "*", "/", "%", "=", "<", ">", "<=", ">="}

\* (+ 1 2 3) and the same call of the other arithmetic primitives
ArithmeticForm(op) == "(" \o op \o " 1 2 3)"

Programs ==
  {"y ('def x 1) x",
   "x 1 y",
   "~@a",
   "(do)",
   "(if true 1 2)",
   "(a ] (b)",
   "{:a 1}",
   "(print 1)"}
  \cup {ArithmeticForm(op) : op \in ArithmeticNames}

\* programs of the evaluator.  A special form is reached only through a head
\* that evaluates to a string, so the forms are spelled with a quoted head.
EvaluatorPrograms ==
  {"(('fn [x] x) 1)",
   "(('fn x x) 1)",
   "('def y 2) ('def f ('let [y 1] ('fn [] y))) ('let [y 3] (f))",
   "('let [] ('def x 1)) x",
   "(('fn [] ('def x 1))) x",
   "('let [] ('defn x [] 1)) x",
   "('let [a 1 b a] b)",
   "('let [a 1 b a c b] c)",
   "('if ('let [] 0) ('let [] 1) ('let [] 2))",
   "('if ('let [] nil) ('let [] 1) ('let [] 2))",
   "(+)",
   "(*)",
   "(list 1 2)",
   "(str 1)",
   "(('fn x x))",
   "(('fn x x) 1 2)",
   "('def x 5) (('fn x x))",
   "(('fn x ('def z 1)) 1 2)",
   "toString",
   "constructor",
   "abc",
   "(('fn x y) 1)",
   "'{:a 1}",
   "'{}",
   "'(a b)",
   "'[a 1]",
   "'(a (b) [c])",
   "'{:a 1 :b 2}",
   "('defmacro m c c) ('m 1)",
   "('def x 1) ('defmacro m [] ('def x 2)) ('m) x",
   "('defmacro m [] 1) ('m) ('let [] ('m))",
   "('defmacro m [] 1) (('fn [] ('m)))",
   "('defmacro r [] ('r)) ('r)",
   "\"\n\"a",
   ";;c\n;;c"}

\* the conditions of the if programs, as source text
ConditionTexts == {"0", "1", "\"\"", "()", "[]", "{}", "'a", "true", "false", "nil"}

IfPrograms ==
  {"('if " \o c \o " 1 2)" : c \in ConditionTexts}
    \cup {"('if " \o c \o " 1)" : c \in ConditionTexts}

\* the splice programs: the quasiquoted list of 1 and the splice of t
SpliceProgram(t) == BQ \o "(1 ~@" \o t \o ")"

SplicePrograms ==
  {SpliceProgram(t) : t \in {"'(2 3)", "[2 3]", "2"}}
    \cup {BQ \o "(1 ,'(2 3))"}

\* the definition of the macro unless, with its parameters spelled as params,
\* and a call of it
MacroProgram(params) ==
  "('defmacro unless " \o params \o " " \o BQ \o "('if ,c ,e ,t)) ('unless false 1 2)"

MacroPrograms == {MacroProgram("[c t e]"), MacroProgram("\"c t e\"")}

Sources ==
  Strings(MaxLen) \cup Programs \cup EvaluatorPrograms \cup IfPrograms
    \cup SplicePrograms \cup MacroPrograms

-----------------------------------------------------------------------------

Init ==
  /\ source \in Sources
  /\ pc = "lex"
  /\ i = 0
  /\ line = 1
  /\ column = 0
  /\ tokens = <<>>
  /\ spans = <<>>
  /\ pos = 0
  /\ body = <<>>
  /\ errors = <<>>
  /\ raised = <<>>
  /\ parsed = "pending"
  /\ heap = <<>>
  /\ macros = EmptyObj
  /\ idx = 0
  /\ expressionCount = 0
  /\ newOutput = <<>>
  /\ output = <<>>
  /\ stats = NoStats
  /\ evalLog = <<>>
  /\ replInput = ""
  /\ replHistory = <<>>
  /\ replHistoryIndex = -1
  /\ isRunning = FALSE
  /\ replOutput = <<>>
  /\ caller = "none"
  /\ runs = <<source>>
  /\ lastEvent = "none"

Next ==
  \/ LexNewline
  \/ LexComment
  \/ LexWhitespace
  \/ LexString
  \/ LexNumber
  \/ LexIdentifier
  \/ LexKeyword
  \/ LexArrow
  \/ LexSingleChar
  \/ LexSkip
  \/ LexEOF
  \/ RunAfterLex
  \/ ParseExprOk
  \/ ParseCatch
  \/ ParseEscape
  \/ ParseReturn
  \/ RunParseFailed
  \/ RunNewEvaluator
  \/ RunEvalExpr
  \/ RunLoopEnd
  \/ RunFinish

Spec == Init /\ [][Next]_vars

\* the IDE after mount, before any run: the useState initial values
ReplInit ==
  /\ source = ""
  /\ pc = "idle"
  /\ i = 0
  /\ line = 1
  /\ column = 0
  /\ tokens = <<>>
  /\ spans = <<>>
  /\ pos = 0
  /\ body = <<>>
  /\ errors = <<>>
  /\ raised = <<>>
  /\ parsed = "pending"
  /\ heap = <<>>
  /\ macros = EmptyObj
  /\ idx = 0
  /\ expressionCount = 0
  /\ newOutput = <<>>
  /\ output = <<>>
  /\ stats = NoStats
  /\ evalLog = <<>>
  /\ replInput = ""
  /\ replHistory = <<>>
  /\ replHistoryIndex = -1
  /\ isRunning = FALSE
  /\ replOutput = <<>>
  /\ caller = "none"
  /\ runs = <<>>
  /\ lastEvent = "none"

ReplNext ==
  \/ SetReplInput
  \/ handleRun
  \/ RunFinally
  \/ handleReplSubmit
  \/ ReplThen
  \/ ArrowUp
  \/ ArrowDown
  \/ LexNewline
  \/ LexComment
  \/ LexWhitespace
  \/ LexString
  \/ LexNumber
  \/ LexIdentifier
  \/ LexKeyword
  \/ LexArrow
  \/ LexSingleChar
  \/ LexSkip
  \/ LexEOF
  \/ RunAfterLex
  \/ ParseExprOk
  \/ ParseCatch
  \/ ParseEscape
  \/ ParseReturn
  \/ RunParseFailed
  \/ RunNewEvaluator
  \/ RunEvalExpr
  \/ RunLoopEnd
  \/ RunFinish

ReplSpec == ReplInit /\ [][ReplNext]_vars

-----------------------------------------------------------------------------
(* Tokenizer.tokenize, the class-based lexer (tokenizer.ts:195-346).  Under *)
(* TokenizerSpec pos is this.pos of the Tokenizer, and one action is one    *)
(* iteration of the main loop.                                              *)

HexDigits == Digits \cup {"a", "b", "c", "d", "e", "f", "A", "B", "C", "D", "E", "F"}
OctDigits == {"0", "1", "2", "3", "4", "5", "6", "7"}

\* SINGLE_CHAR_TOKENS
SINGLE_CHAR_TOKENS ==
  [c \in {"(", ")", "[", "]", "{", "}", "'", BQ, ",", "~", "^", "@"} |->
     CASE c = "(" -> "LPAREN"
       [] c = ")" -> "RPAREN"
       [] c = "[" -> "LBRACKET"
       [] c = "]" -> "RBRACKET"
       [] c = "{" -> "LBRACE"
       [] c = "}" -> "RBRACE"
       [] c = "'" -> "QUOTE"
       [] c = BQ -> "QUASIQUOTE"
       [] c = "," -> "UNQUOTE"
       [] OTHER -> "SPLICE"]

RECURSIVE Advance(_, _, _, _, _)
\* advance() called until this.pos is e: the line and the column it leaves
Advance(s, p, e, l, c) ==
  IF p >= e THEN [line |-> l, column |-> c]
  ELSE IF At(s, p) = "\n" THEN Advance(s, p + 1, e, l + 1, 0)
  ELSE Advance(s, p + 1, e, l, c + 1)

\* the end of the match of the exponent part (?:[eE][+-]?\d+)? at e
ExponentEnd(s, e) ==
  IF At(s, e) \in {"e", "E"}
  THEN LET r == IF At(s, e + 1) \in {"+", "-"} THEN e + 2 ELSE e + 1
       IN IF At(s, r) \in Digits THEN ScanWhile(s, r, Digits) ELSE e
  ELSE e

\* the end of the match of NUMBER_RE at p, or p when it does not match
NumberEnd(s, p) ==
  LET q == IF At(s, p) = "-" THEN p + 1 ELSE p
  IN IF At(s, q) = "0" /\ At(s, q + 1) = "x" /\ At(s, q + 2) \in HexDigits
     THEN ScanWhile(s, q + 2, HexDigits)
     ELSE IF At(s, q) = "0" /\ At(s, q + 1) = "o" /\ At(s, q + 2) \in OctDigits
     THEN ScanWhile(s, q + 2, OctDigits)
     ELSE IF At(s, q) \in Digits
     THEN LET e1 == ScanWhile(s, q, Digits)
          IN ExponentEnd(s, IF At(s, e1) = "." THEN ScanWhile(s, e1 + 1, Digits) ELSE e1)
     ELSE IF At(s, q) = "." /\ At(s, q + 1) \in Digits
     THEN ExponentEnd(s, ScanWhile(s, q + 1, Digits))
     ELSE p

\* the end of the match of KEYWORD_RE at p, or p when it does not match
KeywordEnd(s, p) ==
  IF At(s, p) = ":" /\ At(s, p + 1) \in IdentStart
  THEN ScanWhile(s, p + 1, IdentChars)
  ELSE p

RECURSIVE BlockCommentEnd(_, _)
\* this.pos after the loop of the #| comment entered at p
BlockCommentEnd(s, p) ==
  IF p >= Len(s) THEN p
  ELSE IF At(s, p) = "|" /\ At(s, p + 1) = "#" THEN p + 2
  ELSE BlockCommentEnd(s, p + 1)

RECURSIVE TokString(_, _, _)
\* the loop of the string branch from p: [value, pos]; an escape at the end
\* of the source appends undefined
TokString(s, p, value) ==
  IF p >= Len(s) \/ At(s, p) = "\"" THEN [value |-> value, pos |-> p]
  ELSE IF At(s, p) = "\\"
  THEN LET c == At(s, p + 1)
           v == CASE c = "n" -> "\n"
                  [] c = "t" -> "\t"
                  [] c = "r" -> "\r"
                  [] c = "" -> "undefined"
                  [] OTHER -> c
       IN TokString(s, p + 2, value \o v)
  ELSE TokString(s, p + 1, value \o At(s, p))

RECURSIVE SymbolEnd(_, _)
\* the symbol loop stops at a character that /\s|[\(\)\[\]{}\']`,~^@]/ matches;
\* the class closes after the quote, so that alone only \s matches
SymbolEnd(s, p) ==
  IF p >= Len(s) \/ At(s, p) \in Whitespace THEN p ELSE SymbolEnd(s, p + 1)

TokChar == At(source, pos)

TokLoop == pc = "tok" /\ pos < Len(source)

TokenAt(type, value, start, end, l, c) ==
  [type |-> type, value |-> value,
   location |-> [start |-> start, end |-> end, line |-> l, column |-> c]]

\* what the Tokenizer does not touch
TokRest ==
  UNCHANGED <<source, i, spans, body, errors, raised, parsed, evalVars, outVars, replVars>>

\* moves this.pos to e by calls of advance()
AdvanceTo(e) ==
  /\ pos' = e
  /\ line' = Advance(source, pos, e, line, column).line
  /\ column' = Advance(source, pos, e, line, column).column

IsLineComment == TokChar = ";" /\ At(source, pos + 1) = ";"
IsBlockComment == TokChar = "#" /\ At(source, pos + 1) = "|"
TokPlain == TokLoop /\ ~IsLineComment /\ ~IsBlockComment /\ TokChar \notin Whitespace

TokLineComment ==
  /\ TokLoop
  /\ IsLineComment
  /\ AdvanceTo(ScanToNewline(source, pos))
  /\ UNCHANGED <<pc, tokens>>
  /\ TokRest

TokBlockComment ==
  /\ TokLoop
  /\ ~IsLineComment
  /\ IsBlockComment
  /\ AdvanceTo(BlockCommentEnd(source, pos + 2))
  /\ UNCHANGED <<pc, tokens>>
  /\ TokRest

TokWhitespace ==
  /\ TokLoop
  /\ ~IsLineComment
  /\ ~IsBlockComment
  /\ TokChar \in Whitespace
  /\ AdvanceTo(ScanWhile(source, pos, Whitespace))
  /\ UNCHANGED <<pc, tokens>>
  /\ TokRest

TokStringBranch ==
  /\ TokPlain
  /\ TokChar = "\""
  /\ LET r == TokString(source, pos + 1, "")
         a == Advance(source, pos, r.pos + 1, line, column)
     IN /\ pos' = r.pos + 1
        /\ line' = a.line
        /\ column' = a.column
        /\ tokens' = Append(tokens, TokenAt("STRING", r.value, pos, r.pos + 1,
                                            a.line, a.column))
  /\ UNCHANGED pc
  /\ TokRest

TokNumber ==
  /\ TokPlain
  /\ TokChar # "\""
  /\ NumberEnd(source, pos) > pos
  /\ LET e == NumberEnd(source, pos)
     IN /\ pos' = e
        /\ column' = column + (e - pos)
        /\ tokens' = Append(tokens, TokenAt("NUMBER", SubSeq(source, pos + 1, e), pos, e,
                                            line, column + (e - pos)))
  /\ UNCHANGED <<pc, line>>
  /\ TokRest

\* lines 297-311: when KEYWORD_RE does not match, continue with this.pos as
\* it is
TokKeyword ==
  /\ TokPlain
  /\ TokChar = ":"
  /\ LET e == KeywordEnd(source, pos)
     IN IF e > pos
        THEN /\ pos' = e
             /\ column' = column + (e - pos)
             /\ tokens' = Append(tokens, TokenAt("KEYWORD", SubSeq(source, pos + 1, e),
                                                 pos, e, line, column + (e - pos)))
        ELSE UNCHANGED <<pos, column, tokens>>
  /\ UNCHANGED <<pc, line>>
  /\ TokRest

IsTokOther ==
  /\ TokPlain
  /\ TokChar \notin {"\"", ":"}
  /\ NumberEnd(source, pos) = pos

TokSingleChar ==
  /\ IsTokOther
  /\ TokChar \in DOMAIN SINGLE_CHAR_TOKENS
  /\ tokens' = Append(tokens, TokenAt(SINGLE_CHAR_TOKENS[TokChar], TokChar, pos, pos,
                                      line, column))
  /\ AdvanceTo(pos + 1)
  /\ UNCHANGED pc
  /\ TokRest

TokSymbol ==
  /\ IsTokOther
  /\ TokChar \notin DOMAIN SINGLE_CHAR_TOKENS
  /\ LET e == SymbolEnd(source, pos)
         value == SubSeq(source, pos + 1, e)
         a == Advance(source, pos, e, line, column)
         type == CASE value = "true" -> "TRUE"
                   [] value = "false" -> "FALSE"
                   [] value = "nil" -> "NIL"
                   [] OTHER -> "SYMBOL"
     IN /\ pos' = e
        /\ line' = a.line
        /\ column' = a.column + (e - pos)
        /\ tokens' = Append(tokens, TokenAt(type, value, e, e, a.line,
                                            a.column + (e - pos)))
  /\ UNCHANGED pc
  /\ TokRest

TokEOF ==
  /\ pc = "tok"
  /\ pos >= Len(source)
  /\ tokens' = Append(tokens, TokenAt("EOF", "", pos, pos, line, column))
  /\ pc' = "tokenized"
  /\ UNCHANGED <<pos, line, column>>
  /\ TokRest

\* sources for the branches that the alphabet does not reach
TokenizerPrograms ==
  {"#|a|#1", "#|", "0x1F", "0o17", "-1.5e+3", ".5", "1.e", "\"a\\n\"", "\"a\\",
   "true nil", ":k1 :", "a(b"}

TokInit ==
  /\ source \in Strings(MaxLen) \cup TokenizerPrograms
  /\ pc = "tok"
  /\ i = 0
  /\ line = 1
  /\ column = 0
  /\ tokens = <<>>
  /\ spans = <<>>
  /\ pos = 0
  /\ body = <<>>
  /\ errors = <<>>
  /\ raised = <<>>
  /\ parsed = "pending"
  /\ heap = <<>>
  /\ macros = EmptyObj
  /\ idx = 0
  /\ expressionCount = 0
  /\ newOutput = <<>>
  /\ output = <<>>
  /\ stats = NoStats
  /\ evalLog = <<>>
  /\ replInput = ""
  /\ replHistory = <<>>
  /\ replHistoryIndex = -1
  /\ isRunning = FALSE
  /\ replOutput = <<>>
  /\ caller = "none"
  /\ runs = <<>>
  /\ lastEvent = "none"

TokNext ==
  \/ TokLineComment
  \/ TokBlockComment
  \/ TokWhitespace
  \/ TokStringBranch
  \/ TokNumber
  \/ TokKeyword
  \/ TokSingleChar
  \/ TokSymbol
  \/ TokEOF

\* the loop of tokenize runs on until it ends
TokenizerSpec == TokInit /\ [][TokNext]_vars /\ WF_vars(TokNext)

-----------------------------------------------------------------------------
(* Properties. *)

\* parseProgram has ended, by a return or by a throw
ParseEnded == parsed # "pending"

\* the source lexed and parsed without error
ParsedOk == parsed = "returned" /\ Len(errors) = 0

RECURSIVE LinesOf(_, _)
\* the lines of the iterations k.. of the evaluation loop, in order
LinesOf(log, k) == IF k > Len(log) THEN <<>> ELSE log[k].lines \o LinesOf(log, k + 1)

\* output without its lines of type time
RECURSIVE WithoutTime(_, _)
WithoutTime(lines, k) ==
  IF k > Len(lines) THEN <<>>
  ELSE (IF lines[k].type = "time" THEN <<>> ELSE <<lines[k]>>) \o WithoutTime(lines, k + 1)

TimeLines(lines) == {k \in 1..Len(lines) : lines[k].type = "time"}

\* C1: when the source lexes and parses without error, the output of runCode
\* is, in source order, at most one line per top-level expression: an error
\* line carrying the message when evaluating the expression raised, no line
\* when its value is nil, and a value line otherwise.
C1_OneLinePerExpression ==
  (pc = "done" /\ ParsedOk) =>
    /\ WithoutTime(output, 1) = LinesOf(evalLog, 1)
    /\ \A k \in 1..Len(evalLog) :
         LET e == evalLog[k]
         IN IF e.raised THEN e.lines = <<Line("error", e.msg)>>
            ELSE IF e.v = Nil THEN e.lines = <<>>
            ELSE Len(e.lines) = 1 /\ e.lines[1].type = "value"

\* C2: when the program parses without error, every element of body is
\* evaluated exactly once, in source order, whether or not earlier ones
\* raised; all of them run on the one root Env of the one Evaluator, in which a
\* name bound by an earlier form stays bound while later forms run.
C2_AllEvaluatedInOrder ==
  /\ []((pc \in {"finish", "done"} /\ ParsedOk) =>
          /\ Len(evalLog) = Len(body)
          /\ \A k \in 1..Len(evalLog) :
               evalLog[k].index = k /\ evalLog[k].expr = body[k])
  /\ [][(pc = "eval" /\ pc' = "eval") =>
          /\ Len(evalLog') = Len(evalLog) + 1
          /\ evalLog'[Len(evalLog')].index = Len(evalLog')
          /\ DOMAIN heap[1].bindings \subseteq DOMAIN heap'[1].bindings
          /\ heap'[1].parent = 0]_vars

\* C2 witness: the first form raised, the second bound x, the third read it
C2_Witness ==
  /\ pc = "done"
  /\ Len(evalLog) = 3
  /\ evalLog[1].raised
  /\ ~evalLog[2].raised
  /\ "x" \in DOMAIN heap[1].bindings
  /\ ~evalLog[3].raised /\ evalLog[3].v = Num(1)

\* C3: when a token of type ERROR exists or parseProgram returns at least one
\* error, eval is never called, and when runCode is done its output is exactly
\* one line, of type error, with no time line.
C3_FailureIsOneErrorLine ==
  (\/ pc \notin {"lex", "lexed"} /\ \E k \in 1..Len(tokens) : tokens[k].type = "ERROR"
   \/ parsed = "returned" /\ Len(errors) > 0) =>
    /\ evalLog = <<>>
    /\ expressionCount = 0
    /\ pc = "done" => /\ Len(output) = 1
                      /\ output[1].type = "error"
                      /\ TimeLines(output) = {}

\* C3 witness: runCode is done after parseProgram returned errors next to a
\* body that is not empty
C3_Witness ==
  /\ pc = "done"
  /\ parsed = "returned"
  /\ Len(errors) > 0
  /\ Len(body) > 0

\* the last line of the output is a time line, the only one, and it reports
\* the number of top-level expressions
TimeLineIsLast ==
  /\ Len(output) >= 1
  /\ TimeLines(output) = {Len(output)}
  /\ output[Len(output)].text = TimeText(Len(body), stats.timeMs)

\* C4 as stated: for every source that lexes and parses without error, the
\* last line of the output is a time line, the only one, and it reports the
\* number of top-level expressions.
C4_Original == (pc = "done" /\ ParsedOk) => TimeLineIsLast

\* C4 amended: the same for every such source with at least one top-level
\* expression; for a program with no top-level expression the output has no
\* time line and is empty.
C4_TimeLineWhenNonEmpty ==
  (pc = "done" /\ ParsedOk) =>
    IF Len(body) > 0 THEN TimeLineIsLast ELSE output = <<>>

\* C4 witness: three expressions, two of which raised, and a time line
C4_Witness ==
  /\ pc = "done"
  /\ ParsedOk
  /\ Len(body) = 3
  /\ evalLog[1].raised /\ evalLog[3].raised
  /\ output[Len(output)] = Line("time", TimeText(3, stats.timeMs))

\* C5: every parse error raised while parseProgram runs is in the errors list
\* that parseProgram returns, with the line and column of the token the
\* parser was at, and one token was skipped for it.
C5_EveryErrorReturned ==
  (ParseEnded /\ Len(raised) > 0) =>
    /\ parsed = "returned"
    /\ Len(errors) = Len(raised)
    /\ \A k \in 1..Len(raised) :
         /\ raised[k].at < Len(tokens)
         /\ errors[k].message = raised[k].message
         /\ errors[k].line = tokens[raised[k].at + 1].line
         /\ errors[k].column = tokens[raised[k].at + 1].column
         /\ pos > raised[k].at

\* the parser met the end of input inside a list, vector or map: an error was
\* raised at the EOF token or after it
EofInsideCollection == \E k \in 1..Len(raised) : raised[k].at >= Len(tokens) - 1

\* C6: when the end of input is reached inside an open list, vector or map,
\* parseProgram returns, and its errors list has an error at the position of
\* the EOF token.
C6_UnterminatedIsReported ==
  (ParseEnded /\ EofInsideCollection) =>
    /\ parsed = "returned"
    /\ \E k \in 1..Len(errors) :
         /\ errors[k].line = tokens[Len(tokens)].line
         /\ errors[k].column = tokens[Len(tokens)].column

\* C7: tokenize terminates with a token list whose last token, and no other,
\* is EOF: every iteration of its loop moves i forward (or is the last), i
\* never passes Len(source) + 1, and the source ranges of the tokens are not
\* empty and do not overlap.
C7_TokenizeProgress ==
  /\ [](/\ i <= Len(source) + 1
        /\ Len(spans) = Len(tokens)
        /\ \A k \in 1..Len(tokens) :
             /\ (tokens[k].type = "EOF") <=> (pc # "lex" /\ k = Len(tokens))
             /\ tokens[k].type # "EOF" => spans[k].start < spans[k].end
             /\ k > 1 => spans[k - 1].end <= spans[k].start
        /\ pc # "lex" => Len(tokens) >= 1)
  /\ [][pc = "lex" => (i' > i \/ pc' # "lex")]_vars

\* C7 witness: tokenize has returned two tokens and EOF after skipping a
\* character
C7_Witness ==
  /\ pc = "lexed"
  /\ Len(tokens) >= 2
  /\ spans[1].start > 0
  /\ tokens[Len(tokens)].type = "EOF"

\* C8: a call of an arithmetic or comparison primitive, such as (+ 1 2 3),
\* parses without error to a List whose head is the Symbol of that name.
C8_ArithmeticHeadIsSymbol ==
  \A op \in ArithmeticNames :
    (ParseEnded /\ source = ArithmeticForm(op)) =>
      /\ parsed = "returned"
      /\ errors = <<>>
      /\ body = <<ListE(<<Sym(op), Lit(Num(1)), Lit(Num(2)), Lit(Num(3))>>)>>

\* C9: ~e parses without error to an Unquote node that wraps e, and ~@e to
\* a Splice node that wraps e.
C9_TildeIsUnquote ==
  /\ (ParseEnded /\ source = "~a") =>
       /\ parsed = "returned"
       /\ errors = <<>>
       /\ body = <<UnquoteE(Sym("a"))>>
  /\ (ParseEnded /\ source = "~@a") =>
       /\ parsed = "returned"
       /\ errors = <<>>
       /\ body = <<SpliceE(Sym("a"))>>

ReservedForms == {"def", "defn", "fn", "let", "if", "do", "quote", "defmacro"}

\* a list whose head is the Symbol of a reserved form and whose arguments, if
\* any, are literals
ReservedCall(e) ==
  /\ e.type = "List"
  /\ Len(e.elements) > 0
  /\ e.elements[1].type = "Symbol"
  /\ PropKey(e.elements[1]) \in ReservedForms
  /\ \A k \in 2..Len(e.elements) : e.elements[k].type = "Literal"

\* C10: a list whose head is the name of a reserved special form is handled
\* as that form without a lookup of the name in the environment: evaluating
\* it does not raise an undefined-symbol error for the name.
C10_ReservedHeadNotLookedUp ==
  \A k \in 1..Len(evalLog) :
    ReservedCall(evalLog[k].expr) =>
      ~(/\ evalLog[k].raised
        /\ evalLog[k].msg = "Undefined symbol: " \o PropKey(evalLog[k].expr.elements[1]))

\* (name a1 .. an) with the head spelled 'name
Form(name, args) == ListE(<<QuoteE(Sym(name))>> \o args)

\* ('fn [p] p) and ('fn p p): the function of one parameter that returns it
FnOfVector(p) == Form("fn", <<VectorE(<<Sym(p)>>), Sym(p)>>)
FnOfSymbol(p) == Form("fn", <<Sym(p), Sym(p)>>)

\* a call of such a function on one literal
IsIdentityCall(e) ==
  /\ e.type = "List"
  /\ Len(e.elements) = 2
  /\ e.elements[1] \in {FnOfVector("x"), FnOfSymbol("x")}
  /\ e.elements[2].type = "Literal"

CaptureProgram == "('def y 2) ('def f ('let [y 1] ('fn [] y))) ('let [y 3] (f))"

\* C11: a symbol in a closure body resolves to the binding of the nearest
\* scope that encloses the place where the closure was created: a reference
\* to the parameter yields the argument of the call, and a closure made in
\* the body of a let whose y is 1 yields 1 when it is called, after the let
\* has returned, from a scope whose y is 3 under a root whose y is 2.
C11_LexicalScope ==
  /\ \A k \in 1..Len(evalLog) :
       IsIdentityCall(evalLog[k].expr) =>
         /\ ~evalLog[k].raised
         /\ evalLog[k].v = evalLog[k].expr.elements[2].value
  /\ (pc = "done" /\ source = CaptureProgram) =>
       /\ Len(evalLog) = 3
       /\ ~evalLog[3].raised
       /\ evalLog[3].v = Num(1)

\* ('let [] D) and (('fn [] D)): the definition D in the body of a let and in
\* the body of a function that is called
InLetBody(def) == Form("let", <<VectorE(<<>>), def>>)
InFnBody(def) == ListE(<<Form("fn", <<VectorE(<<>>), def>>)>>)

DefX == Form("def", <<Sym("x"), Lit(Num(1))>>)
DefnX == Form("defn", <<Sym("x"), VectorE(<<>>), Lit(Num(1))>>)

\* C12: a def or defn evaluated in the body of a let or of a function binds
\* the name in the root environment and in no local environment, so the name
\* is bound at top level after the body has returned.
C12_DefBindsInRoot ==
  \A k \in 1..Len(evalLog) :
    (/\ evalLog[k].expr \in {InLetBody(DefX), InFnBody(DefX), InLetBody(DefnX)}
     /\ ~evalLog[k].raised) =>
      /\ "x" \in DOMAIN heap[1].bindings
      /\ \A e \in 2..Len(heap) : "x" \notin DOMAIN heap[e].bindings

\* ('let [a 1 b a ...] last): each value expression after the first is the
\* name bound just before it
LetChain(names) ==
  Form("let",
       <<VectorE([j \in 1..(2 * Len(names)) |->
                    IF j % 2 = 1 THEN Sym(names[(j + 1) \div 2])
                    ELSE IF j = 2 THEN Lit(Num(1))
                    ELSE Sym(names[(j \div 2) - 1])]),
         Sym(names[Len(names)])>>)

\* C13: the bindings of a let are sequential: a value expression may refer to
\* the names bound before it, so ('let [a 1 b a] b) is 1.
C13_LetIsSequential ==
  \A k \in 1..Len(evalLog) :
    evalLog[k].expr \in {LetChain(<<"a", "b">>), LetChain(<<"a", "b", "c">>)} =>
      /\ ~evalLog[k].raised
      /\ evalLog[k].v = Num(1)

\* ('if c 1 2) and ('if c 1) for a condition that looks up no name
IsPlainIf(e) ==
  /\ e.type = "List"
  /\ Len(e.elements) \in {3, 4}
  /\ e.elements[1] = QuoteE(Sym("if"))
  /\ e.elements[2].type \in {"Literal", "List", "Vector", "Map", "Quote"}
  /\ e.elements[2].type \in {"List", "Vector"} => e.elements[2].elements = <<>>
  /\ e.elements[2].type = "Map" => e.elements[2].pairs = <<>>
  /\ e.elements[3] = Lit(Num(1))
  /\ Len(e.elements) = 4 => e.elements[4] = Lit(Num(2))

\* ('if ('let [] c) ('let [] 1) ('let [] 2)): every evaluation of a part
\* creates one Env
CountingIf(c) ==
  Form("if", <<Form("let", <<VectorE(<<>>), Lit(c)>>),
               Form("let", <<VectorE(<<>>), Lit(Num(1))>>),
               Form("let", <<VectorE(<<>>), Lit(Num(2))>>)>>)

IsPrimitiveCall(e) ==
  /\ e.type = "List"
  /\ Len(e.elements) > 0
  /\ e.elements[1].type = "Symbol"
  /\ PropKey(e.elements[1]) \in PrimitiveNames
  /\ \A k \in 2..Len(e.elements) : e.elements[k].type = "Literal"

\* C15: the call of a primitive returns the value that its implementation
\* computes from the evaluated arguments, never a function value: (+) is 0,
\* (*) is 1 and (+ 1 2 3) is 6.
C15_PrimitiveComputes ==
  /\ \A k \in 1..Len(evalLog) :
       IsPrimitiveCall(evalLog[k].expr) =>
         (~evalLog[k].raised => evalLog[k].v.k # "fn")
  /\ \A t \in {<<"(+)", 0>>, <<"(*)", 1>>, <<"(+ 1 2 3)", 6>>} :
       (pc = "done" /\ source = t[1]) =>
         /\ Len(evalLog) = 1
         /\ ~evalLog[1].raised
         /\ evalLog[1].v = Num(t[2])

\* ('fn x ('def z 1)): a function of one parameter whose body leaves a trace
FnWithTrace == Form("fn", <<Sym("x"), Form("def", <<Sym("z"), Lit(Num(1))>>)>>)

\* a call of a function of one parameter on zero, two or more literals
IsArityMismatch(e) ==
  /\ e.type = "List"
  /\ Len(e.elements) # 2
  /\ Len(e.elements) > 0
  /\ e.elements[1] \in {FnOfSymbol("x"), FnWithTrace}
  /\ \A k \in 2..Len(e.elements) : e.elements[k].type = "Literal"

WrongNumber == "wrong number of arguments"

\* C16: the call of a closure with a number of arguments that differs from
\* its number of parameters raises a "wrong number of arguments" error, and
\* the body of the closure is not evaluated.
C16_ArityIsChecked ==
  \A k \in 1..Len(evalLog) :
    IsArityMismatch(evalLog[k].expr) =>
      /\ evalLog[k].raised
      /\ Len(evalLog[k].msg) >= Len(WrongNumber)
      /\ SubSeq(evalLog[k].msg, 1, Len(WrongNumber)) = WrongNumber
      /\ \A e \in 1..Len(heap) : "z" \notin DOMAIN heap[e].bindings

Upper == <<"A", "B", "C", "D", "E", "F", "G", "H", "I", "J", "K", "L", "M",
           "N", "O", "P", "Q", "R", "S", "T", "U", "V", "W", "X", "Y", "Z">>
Lower == <<"a", "b", "c", "d", "e", "f", "g", "h", "i", "j", "k", "l", "m",
           "n", "o", "p", "q", "r", "s", "t", "u", "v", "w", "x", "y", "z">>

RECURSIVE ToLower(_, _)
\* s from character k on, in lower case
ToLower(s, k) ==
  IF k >= Len(s) THEN ""
  ELSE (IF \E j \in 1..26 : Upper[j] = At(s, k)
        THEN Lower[CHOOSE j \in 1..26 : Upper[j] = At(s, k)]
        ELSE At(s, k)) \o ToLower(s, k + 1)

\* t occurs in s
Contains(s, t) ==
  \E k \in 1..(Len(s) - Len(t) + 1) : SubSeq(s, k, k + Len(t) - 1) = t

\* C17: a top-level symbol that is bound in no environment raises an error,
\* and the output has, for it, exactly one error line whose text contains
\* "undefined symbol" (whatever the letter case) and the name.
C17_UndefinedSymbolRaises ==
  \A k \in 1..Len(evalLog) :
    LET e == evalLog[k].expr
    IN (e.type = "Symbol" /\ PropKey(e) \notin DOMAIN heap[1].bindings) =>
         /\ evalLog[k].raised
         /\ evalLog[k].lines = <<Line("error", evalLog[k].msg)>>
         /\ Contains(ToLower(evalLog[k].msg, 0), "undefined symbol")
         /\ Contains(evalLog[k].msg, PropKey(e))

RECURSIVE IsPlainData(_)
\* an expression made of symbols, literals, lists and vectors only
IsPlainData(q) ==
  CASE q.type \in {"Symbol", "Literal"} -> TRUE
    [] q.type \in {"List", "Vector"} ->
         \A j \in 1..Len(q.elements) : IsPlainData(q.elements[j])
    [] OTHER -> FALSE

RECURSIVE QuotedForm(_)
\* the quoted form of such an expression: a symbol is the string of its
\* name, a literal its value, a list or vector the collection of the quoted
\* forms of its elements
QuotedForm(q) ==
  CASE q.type \in {"Symbol", "Literal"} -> q.value
    [] q.type = "List" -> ListV([j \in 1..Len(q.elements) |-> QuotedForm(q.elements[j])])
    [] q.type = "Vector" ->
         VectorV([j \in 1..Len(q.elements) |-> QuotedForm(q.elements[j])])

\* a Map expression whose keys are distinct keyword or string literals and
\* whose values are symbols or literals
IsPlainMap(q) ==
  /\ q.type = "Map"
  /\ \A j \in 1..Len(q.pairs) :
       /\ q.pairs[j].key.type = "Literal"
       /\ q.pairs[j].key.value.k = "string"
       /\ q.pairs[j].value.type \in {"Symbol", "Literal"}
       /\ \A j2 \in 1..Len(q.pairs) : q.pairs[j2].key = q.pairs[j].key => j2 = j

\* C18: quoting a list, vector or map yields a collection of the same kind
\* with the quoted form of every sub-expression, without evaluating any of
\* them; the quoted map of k pairs has k entries, each key with the quoted
\* form of its value.
C18_QuoteKeepsStructure ==
  \A k \in 1..Len(evalLog) :
    LET e == evalLog[k].expr
    IN /\ (e.type = "Quote" /\ e.expr.type \in {"List", "Vector"} /\ IsPlainData(e.expr)) =>
            /\ ~evalLog[k].raised
            /\ evalLog[k].v = QuotedForm(e.expr)
       /\ (e.type = "Quote" /\ IsPlainMap(e.expr)) =>
            /\ ~evalLog[k].raised
            /\ evalLog[k].v.k = "map"
            /\ Cardinality(DOMAIN evalLog[k].v.entries) = Len(e.expr.pairs)
            /\ \A j \in 1..Len(e.expr.pairs) :
                 /\ e.expr.pairs[j].key.value.s \in DOMAIN evalLog[k].v.entries
                 /\ evalLog[k].v.entries[e.expr.pairs[j].key.value.s]
                      = e.expr.pairs[j].value.value

\* the same list as an expression
SpliceList(x) == QuasiquoteE(ListE(<<Lit(Num(1)), SpliceE(x)>>))

TwoThree == <<Lit(Num(2)), Lit(Num(3))>>

\* C19: a Splice inside a quasiquoted list is evaluated, and the elements of
\* its value, a list or a vector, are inserted in order in the enclosing
\* list; a value that is neither raises an error.  Stated for the programs
\* and for eval applied, in any state of the evaluation loop, to the
\* expressions that these programs stand for.
C19_SpliceFlattensSequences ==
  /\ \A t \in {"'(2 3)", "[2 3]"} :
       (pc = "done" /\ source = SpliceProgram(t)) =>
         /\ Len(evalLog) = 1
         /\ ~evalLog[1].raised
         /\ evalLog[1].v = ListV(<<Num(1), Num(2), Num(3)>>)
  /\ (pc = "done" /\ source = SpliceProgram("2")) =>
       /\ Len(evalLog) = 1
       /\ evalLog[1].raised
  /\ pc = "eval" =>
       /\ \A x \in {QuoteE(ListE(TwoThree)), VectorE(TwoThree)} :
            LET r == eval(SpliceList(x), 1, macros, heap, MaxDepth)
            IN ~r.thrown /\ r.v = ListV(<<Num(1), Num(2), Num(3)>>)
       /\ eval(SpliceList(Lit(Num(2))), 1, macros, heap, MaxDepth).thrown

\* ('unless false 1 2) and its arguments
UnlessArgs == <<Lit(Bool(FALSE)), Lit(Num(1)), Lit(Num(2))>>
UnlessCall == Form("unless", UnlessArgs)

RECURSIVE Instantiate(_, _, _)
\* the template q with every unquoted parameter replaced by the argument at
\* the position of the parameter
Instantiate(q, params, args) ==
  CASE q.type = "Quasiquote" -> Instantiate(q.expr, params, args)
    [] q.type = "Unquote" /\ q.expr.type = "Symbol"
         /\ (\E j \in 1..Len(params) : params[j] = PropKey(q.expr)) ->
         args[CHOOSE j \in 1..Len(params) : params[j] = PropKey(q.expr)]
    [] q.type = "List" ->
         ListE([j \in 1..Len(q.elements) |-> Instantiate(q.elements[j], params, args)])
    [] OTHER -> q

\* C20: the expansion of a macro call has the argument expressions at the
\* places where the body unquotes the parameters: with unless defined on
\* c t e as the template ('if ,c ,e ,t), the call ('unless false 1 2)
\* expands to ('if false 2 1) and its value is 1.
C20_MacroArgumentsSubstituted ==
  \A k \in 1..Len(evalLog) :
    (evalLog[k].expr = UnlessCall /\ "unless" \in DOMAIN macros) =>
      /\ expandMacro(macros["unless"], UnlessArgs).expr
           = Instantiate(macros["unless"].body[1], <<"c", "t", "e">>, UnlessArgs)
      /\ ~evalLog[k].raised
      /\ evalLog[k].v = Num(1)

RECURSIVE SymbolsOf(_)
\* the names of the symbols that occur in an expression
SymbolsOf(e) ==
  CASE e.type = "Symbol" -> {PropKey(e)}
    [] e.type \in {"List", "Vector"} ->
         UNION {SymbolsOf(e.elements[j]) : j \in 1..Len(e.elements)}
    [] e.type \in {"Quote", "Quasiquote", "Unquote", "Splice"} -> SymbolsOf(e.expr)
    [] OTHER -> {}

\* the names <param>__gen<counter> that an expansion of the macro can generate
GeneratedFor(macro) ==
  {macro.params[j] \o "__gen" \o IntToStr(c) :
     j \in 1..Len(macro.params), c \in 1..Len(macro.params)}

HygieneProgram == "('def x 1) ('defmacro m [] ('def x 2)) ('m) x"

\* C21: expansion renames only the identifiers that the macro body itself
\* introduces: a parameter of the macro is not renamed to a generated name,
\* and the caller's binding of x is what it was after a macro that uses x
\* internally has been expanded and evaluated.
C21_HygieneKeepsCallerNames ==
  /\ \A k \in 1..Len(evalLog) :
       (/\ evalLog[k].expr = Form("m", <<Lit(Num(1))>>)
        /\ "m" \in DOMAIN macros
        /\ macros["m"].params = <<"c">>) =>
         LET r == expandMacro(macros["m"], <<Lit(Num(1))>>)
         IN /\ ~r.thrown
            /\ SymbolsOf(r.expr) \cap GeneratedFor(macros["m"]) = {}
  /\ (pc = "done" /\ source = HygieneProgram) =>
       /\ Len(evalLog) = 4
       /\ ~evalLog[4].raised
       /\ evalLog[4].v = Num(1)

\* ('defmacro m [] 1) and the call ('m)
DefmacroM == Form("defmacro", <<Sym("m"), VectorE(<<>>), Lit(Num(1))>>)
CallM == Form("m", <<>>)

\* C22: once ('defmacro m [] 1) has been evaluated, every later evaluation
\* of a list with head m by the same interpreter expands the macro, at top
\* level, in the body of a let and in the body of a called function alike.
C22_OneMacroTable ==
  \A k \in 1..Len(evalLog) :
    (/\ evalLog[k].expr \in {CallM, InLetBody(CallM), InFnBody(CallM)}
     /\ \E j \in 1..(k - 1) : evalLog[j].expr = DefmacroM /\ ~evalLog[j].raised) =>
      /\ ~evalLog[k].raised
      /\ evalLog[k].v = Num(1)

\* ('defmacro r [] ('r)): a macro whose expansion is a call of itself
CallR == Form("r", <<>>)
DefmacroR == Form("defmacro", <<Sym("r"), VectorE(<<>>), CallR>>)

TooDeep == "macro expansion too deep"

\* C23: the call of a macro whose expansion calls the same macro again ends
\* with the error "macro expansion too deep".
C23_ExpansionDepthIsCapped ==
  \A k \in 1..Len(evalLog) :
    (/\ evalLog[k].expr = CallR
     /\ \E j \in 1..(k - 1) : evalLog[j].expr = DefmacroR /\ ~evalLog[j].raised) =>
      /\ evalLog[k].raised
      /\ Contains(ToLower(evalLog[k].msg, 0), TooDeep)

\* the source is one string literal whose closing double quote is missing
IsUnterminatedString(s) ==
  /\ Len(s) >= 1
  /\ At(s, 0) = "\""
  /\ \A k \in 1..(Len(s) - 1) : At(s, k) \notin {"\"", "\\"}

\* C24: a string literal whose closing double quote is missing before the
\* end of input gives an ERROR token and no STRING token, and runCode then
\* outputs a single error line.
C24_UnterminatedStringIsError ==
  (IsUnterminatedString(source) /\ pc \notin {"lex"}) =>
    /\ \E k \in 1..Len(tokens) : tokens[k].type = "ERROR"
    /\ \A k \in 1..Len(tokens) : tokens[k].type # "STRING"
    /\ pc = "done" => (Len(output) = 1 /\ output[1].type = "error")

\* C25: a name defined by one REPL submission, or by a Run of the editor
\* code, is bound when a later REPL submission is evaluated: after
\* ('def x 1), the submission x yields 1.
C25_ReplKeepsDefinitions ==
  (/\ pc = "done"
   /\ caller = "repl"
   /\ runs = <<"('def x 1)", "x">>) =>
    /\ Len(evalLog) = 1
    /\ ~evalLog[1].raised
    /\ evalLog[1].v = Num(1)

\* C26: while parseProgram runs, and when it has ended, the cursor pos is at
\* most the index of the EOF token, the last of the token list, so that
\* peek() returns a token.
C26_CursorWithinTokens ==
  pc \in {"parse", "parsed", "eval", "finish", "done"} =>
    /\ tokens[Len(tokens)].type = "EOF"
    /\ pos <= Len(tokens) - 1

\* C27: Tokenizer.tokenize terminates on every source: its main loop, which
\* runs on by itself, reaches the end of the source and returns the tokens,
\* also when the current character is a colon that no letter or underscore
\* follows.
C27_TokenizerTerminates == <>(pc = "tokenized")

RECURSIVE NewlinesBefore(_, _)
\* the number of newline characters among the first p characters of s
NewlinesBefore(s, p) ==
  IF p <= 0 THEN 0
  ELSE (IF At(s, p - 1) = "\n" THEN 1 ELSE 0) + NewlinesBefore(s, p - 1)

RECURSIVE LineStart(_, _)
\* the index after the last newline before position p, or 0
LineStart(s, p) ==
  IF p <= 0 THEN 0
  ELSE IF At(s, p - 1) = "\n" THEN p
  ELSE LineStart(s, p - 1)

\* the position of the first character of token k; for EOF, the end of the
\* source
FirstChar(k) == IF spans[k].start < Len(source) THEN spans[k].start ELSE Len(source)

\* C28: every token that tokenize returns, EOF included, has as line 1 plus
\* the number of newlines before its first character, and as column the
\* number of characters between the last newline before it (or the start of
\* the source) and its first character.
C28_TokenPositions ==
  \A k \in 1..Len(tokens) :
    /\ tokens[k].line = 1 + NewlinesBefore(source, FirstChar(k))
    /\ tokens[k].column = FirstChar(k) - LineStart(source, FirstChar(k))

\* the history index is in range
HistoryIndexInRange ==
  /\ -1 <= replHistoryIndex
  /\ replHistoryIndex <= Len(replHistory) - 1

\* a key press that moves the index loads the entry of the history at the
\* new index, counted from the newest entry
KeysLoadEntries ==
  (/\ Idle
   /\ lastEvent' \in {"up", "down"}
   /\ replHistoryIndex' # replHistoryIndex
   /\ replHistoryIndex' # -1) =>
    /\ replHistoryIndex' \in 0..(Len(replHistory) - 1)
    /\ replInput' = replHistory[Len(replHistory) - replHistoryIndex']

\* ArrowDown at index 0 or -1 resets the index and clears the input
DownResets ==
  (Idle /\ lastEvent' = "down" /\ replHistoryIndex <= 0) =>
    (replHistoryIndex' = -1 /\ replInput' = "")

\* a step of handleReplSubmit
IsSubmit == Idle /\ lastEvent' = "submit"

\* C29 as stated: the index stays between -1 and the last index of the
\* history, the arrow keys load existing entries only, ArrowDown at 0 or -1
\* resets, and every submission appends the input to the history and resets
\* the index to -1.
C29_Original ==
  /\ []HistoryIndexInRange
  /\ [][KeysLoadEntries]_vars
  /\ [][DownResets]_vars
  /\ [][IsSubmit =>
          /\ replHistory' = Append(replHistory, replInput)
          /\ replHistoryIndex' = -1]_vars

\* C29 amended: the same, but only the submission of an input that is not
\* blank appends it and resets the index; the submission of a blank input
\* changes neither the history nor the index nor the input.
C29_HistoryIndex ==
  /\ []HistoryIndexInRange
  /\ [][KeysLoadEntries]_vars
  /\ [][DownResets]_vars
  /\ [][IsSubmit =>
          IF IsBlank(replInput)
          THEN UNCHANGED <<replHistory, replHistoryIndex, replInput>>
          ELSE /\ replHistory' = Append(replHistory, replInput)
               /\ replHistoryIndex' = -1]_vars

\* C29 witness: after two submissions, ArrowUp pressed twice has loaded the
\* oldest entry
C29_Witness ==
  /\ lastEvent = "up"
  /\ Len(replHistory) = 2
  /\ replHistoryIndex = 1
  /\ replInput = replHistory[1]

\* C30: when a REPL submission has completed, the displayed output is the
\* output shown before the submission, then the echo line of the input, then
\* the result lines of the submission.
C30_ReplOutputIsAppended ==
  (pc = "done" /\ caller = "repl") => output = replOutput \o newOutput

====
